---- MODULE Spec2Model ----
(***************************************************************************)
(* hot-tour-radar: the ingest worker (backend/worker/main.go), its text    *)
(* pipeline (internal/processing) and its de-duplication cache             *)
(* (internal/dedupe).                                                      *)
(*                                                                         *)
(* Text is a sequence of characters over a small alphabet:                 *)
(*   "a", "b"  letters                                                     *)
(*   " "       whitespace                                                  *)
(*   "."       a sentence terminator (also punctuation)                    *)
(*   "h"       the lexeme "http://" (the prefix the URL pattern needs)     *)
(*   "e"       the HTML entity "&amp;", and "&" the character it decodes   *)
(*             to                                                          *)
(*   "t"       the letters "http" (what punctuation stripping leaves of    *)
(*             an "h" that starts no URL)                                  *)
(*                                                                         *)
(* An instant is [t, n]: t counts whole clock units (seconds, the          *)
(* resolution of RFC3339) and n orders the readings inside one unit.  A    *)
(* time.Time carries a monotonic reading of nanosecond resolution, so two  *)
(* successive readings by one goroutine are different values; n makes      *)
(* them so.  Instants are ordered lexicographically.                       *)
(***************************************************************************)
EXTENDS Integers, Sequences, FiniteSets, TLC

VARIABLES
    cache,      \* the dedupe.Cache of the running process
    now,        \* the wall clock, in whole units
    seq,        \* number of stored clock readings so far (orders instants)
    marked,     \* history: key -> instant of the last MarkSeen(key), or ZeroTime
    lastMarked, \* history: the key of the most recent MarkSeen, or NoKey
    lastCall,   \* history: the most recent call made on the cache directly
    index,      \* the search index: the documents written, one per id
    last,       \* history: the most recent processMessage call and its outcome
    idxLog,     \* history: the successful IndexNews calls of this run, in order
    log,        \* the partition of the input topic: the payloads, offset 0 first
    committed,  \* the consumer group's committed offset for the partition
    pos,        \* the offset the reader fetches next
    pc,         \* where the worker's main loop stands
    cur,        \* the offset of the message in hand, -1 before the first
    attempt,    \* the DLQ retry loop's attempt
    cancelled,  \* the root context is done (SIGTERM or SIGINT arrived)
    restarts,   \* how often the worker process was started again
    dlq,        \* the messages written to the dead-letter topic
    ev,         \* history: what happened to the message in hand, in order
    done,       \* history: the offsets ever indexed or dropped as duplicates
    sweep,      \* the retention job's DeleteOlderThan call: its locals and history
    ret,        \* the retention service's main: its position and locals
    fn,         \* history: the most recent call of a function on its own
    calls       \* per goroutine, the cache call it is in, before c.mu.Lock()

clockVars == <<now, seq>>
cacheHist == <<marked, lastMarked, lastCall>>
procVars == <<index, last, idxLog>>
otherVars == <<ret, fn, calls>>
workerVars == <<log, committed, pos, pc, cur, attempt, cancelled, restarts, dlq,
                ev, done>>
vars == <<cache, now, seq, marked, lastMarked, lastCall, index, last, idxLog,
          log, committed, pos, pc, cur, attempt, cancelled, restarts, dlq,
          ev, done, sweep, ret, fn, calls>>

----------------------------------------------------------------------------
(* Bounds of the model *)

MaxNow == 3         \* the clock stops advancing here
MaxReads == 4       \* MarkSeen calls when the cache is driven directly
MaxIndexed == 3     \* successful IndexNews calls when processMessage is driven directly
MaxLog == 2         \* messages published to the partition
MaxRestarts == 1    \* restarts of the worker process
Capacity == 1       \* the configured cache capacity (WORKER_DEDUPE_CAPACITY)
TTL == 2            \* the configured cache ttl (WORKER_DEDUPE_TTL), in clock units
MaxLen == 3         \* characters of a text a function is called on
MaxUrlLen == 8      \* characters of a text ExtractURLs is called on
MaxKwLen == 5       \* characters of a text ExtractKeywords is called on
MaxSortLen == 3     \* lexemes of a Sort string
MaxConcReads == 3   \* MarkSeen calls when goroutines share the cache

(* Program constants *)

Hour == 3600        \* time.Hour, in clock units (seconds)

----------------------------------------------------------------------------
(* time.Time *)

\* time.Time{}
ZeroTime == [t |-> -1, n |-> 0]
IsZero(ts) == ts = ZeroTime

NoKey == "none"

\* Time.Before
Before(a, b) == a.t < b.t \/ (a.t = b.t /\ a.n < b.n)

\* Time.Add
Add(a, d) == [t |-> a.t + d, n |-> a.n]

----------------------------------------------------------------------------
(* Strings *)

Space == " "
SentenceEnd == {"."}            \* strings.IndexAny(s, ".!?")
Punct == {".", "&"}             \* neither letter nor digit nor whitespace

RECURSIVE TrimLeft(_)
TrimLeft(s) == IF s # <<>> /\ Head(s) = Space THEN TrimLeft(Tail(s)) ELSE s

RECURSIVE TrimRight(_)
TrimRight(s) ==
    IF s # <<>> /\ s[Len(s)] = Space THEN TrimRight(SubSeq(s, 1, Len(s) - 1)) ELSE s

\* strings.TrimSpace
TrimSpace(s) == TrimRight(TrimLeft(s))

\* strings.Fields: the maximal runs of non-space characters
RECURSIVE FieldsFrom(_, _)
FieldsFrom(s, word) ==
    IF s = <<>> THEN (IF word = <<>> THEN <<>> ELSE <<word>>)
    ELSE IF Head(s) = Space
         THEN (IF word = <<>> THEN <<>> ELSE <<word>>) \o FieldsFrom(Tail(s), <<>>)
         ELSE FieldsFrom(Tail(s), Append(word, Head(s)))

Fields(s) == FieldsFrom(s, <<>>)

\* strings.Join(words, " ")
RECURSIVE Join(_)
Join(words) ==
    IF words = <<>> THEN <<>>
    ELSE IF Len(words) = 1 THEN words[1]
    ELSE words[1] \o <<Space>> \o Join(Tail(words))

\* strings.IndexAny: 0-based index of the first character of chars, or -1
IndexAny(s, chars) ==
    LET hits == {i \in 1..Len(s) : s[i] \in chars}
    IN IF hits = {} THEN -1
       ELSE (CHOOSE i \in hits : \A j \in hits : i <= j) - 1

----------------------------------------------------------------------------
(* internal/processing *)

\* urlRegex.ReplaceAllString(input, " "): a match is "http://" followed by
\* one or more non-space characters, taken greedily
RECURSIVE RemoveURLsFrom(_, _)
RemoveURLsFrom(s, inURL) ==
    IF s = <<>> THEN <<>>
    ELSE IF inURL
         THEN (IF Head(s) = Space
               THEN <<Space>> \o RemoveURLsFrom(Tail(s), FALSE)
               ELSE RemoveURLsFrom(Tail(s), TRUE))
         ELSE IF Head(s) = "h" /\ Len(s) >= 2 /\ s[2] # Space
              THEN <<Space>> \o RemoveURLsFrom(Tail(Tail(s)), TRUE)
              ELSE <<Head(s)>> \o RemoveURLsFrom(Tail(s), FALSE)

RemoveURLs(input) == RemoveURLsFrom(input, FALSE)

\* urlRegex.FindAllString(input, -1): the matches, leftmost first, each
\* "http://" with the run of non-space characters after it
RECURSIVE FindAllURLs(_, _)
FindAllURLs(s, url) ==
    IF s = <<>> THEN (IF url = <<>> THEN <<>> ELSE <<url>>)
    ELSE IF url # <<>>
         THEN (IF Head(s) = Space
               THEN <<url>> \o FindAllURLs(Tail(s), <<>>)
               ELSE FindAllURLs(Tail(s), Append(url, Head(s))))
         ELSE IF Head(s) = "h" /\ Len(s) >= 2 /\ s[2] # Space
              THEN FindAllURLs(Tail(Tail(s)), <<"h", s[2]>>)
              ELSE FindAllURLs(Tail(s), <<>>)

\* The loop over the matches: a match is appended unless it was seen
RECURSIVE Unique(_, _)
Unique(matches, seen) ==
    IF matches = <<>> THEN <<>>
    ELSE IF Head(matches) \in seen THEN Unique(Tail(matches), seen)
    ELSE <<Head(matches)>> \o Unique(Tail(matches), seen \cup {Head(matches)})

\* An ExtractURLs that returns every match, repeated ones too.
ExtractURLsAll(input) ==
    IF input = <<>> THEN <<>> ELSE FindAllURLs(input, <<>>)

\* nil is the empty sequence
ExtractURLs(input) ==
    IF input = <<>> THEN <<>>
    ELSE LET matches == FindAllURLs(input, <<>>)
         IN IF Len(matches) = 0 THEN <<>> ELSE Unique(matches, {})

\* html.UnescapeString: the entity "e" ("&amp;") decodes to "&"
UnescapeString(s) == [i \in 1..Len(s) |-> IF s[i] = "e" THEN "&" ELSE s[i]]

\* punctuation.ReplaceAllString(s, " "): every run of punctuation becomes one
\* space; of "http://" the letters stay and "://" is punctuation
RECURSIVE StripPunctuation(_, _)
StripPunctuation(s, inRun) ==
    IF s = <<>> THEN <<>>
    ELSE IF Head(s) \in Punct
         THEN (IF inRun THEN <<>> ELSE <<Space>>) \o StripPunctuation(Tail(s), TRUE)
         ELSE IF Head(s) = "h"
              THEN <<"t", Space>> \o StripPunctuation(Tail(s), TRUE)
              ELSE <<Head(s)>> \o StripPunctuation(Tail(s), FALSE)

\* whitespace.ReplaceAllString(s, " ")
RECURSIVE SqueezeSpace(_)
SqueezeSpace(s) ==
    IF Len(s) < 2 THEN s
    ELSE IF s[1] = Space /\ s[2] = Space THEN SqueezeSpace(Tail(s))
    ELSE <<s[1]>> \o SqueezeSpace(Tail(s))

\* A CleanText that decodes the HTML entities last, after the cleaning.
CleanTextDecodesLast(input) ==
    IF input = <<>> THEN <<>>
    ELSE UnescapeString(TrimSpace(SqueezeSpace(StripPunctuation(RemoveURLs(input), FALSE))))

CleanText(input) ==
    IF input = <<>> THEN <<>>
    ELSE TrimSpace(SqueezeSpace(StripPunctuation(RemoveURLs(UnescapeString(input)), FALSE)))

\* strings.ToLower
ToLower(s) == [i \in 1..Len(s) |-> IF s[i] = "A" THEN "a" ELSE s[i]]

\* unicode.IsLetter(r) || unicode.IsNumber(r)
Letters == {"a", "b", "A", "t"}

\* strings.TrimFunc(token, not a letter and not a number)
RECURSIVE TrimNonLetters(_)
TrimNonLetters(token) ==
    IF token = <<>> THEN <<>>
    ELSE IF Head(token) \notin Letters THEN TrimNonLetters(Tail(token))
    ELSE IF token[Len(token)] \notin Letters
         THEN TrimNonLetters(SubSeq(token, 1, Len(token) - 1))
         ELSE token

\* len([]rune(token)): "t" stands for the four letters of "http"
RECURSIVE RuneLen(_)
RuneLen(token) ==
    IF token = <<>> THEN 0
    ELSE (IF Head(token) = "t" THEN 4 ELSE 1) + RuneLen(Tail(token))

\* the stop-words that can be written in the alphabet: the English "a"
stopwords == {<<"a">>}

\* pairs[i].word < pairs[j].word: the order of Go strings, byte by byte
Rank(c) == CASE c = "A" -> 0 [] c = "a" -> 1 [] c = "b" -> 2 [] OTHER -> 3
RECURSIVE WordLess(_, _)
WordLess(u, v) ==
    IF v = <<>> THEN FALSE
    ELSE IF u = <<>> THEN TRUE
    ELSE IF Head(u) # Head(v) THEN Rank(Head(u)) < Rank(Head(v))
    ELSE WordLess(Tail(u), Tail(v))

\* the loop over the tokens: freq[token]++ unless the token is skipped
RECURSIVE CountTokens(_, _, _)
CountTokens(tokens, minLen, skipStopwords) ==
    IF tokens = <<>> THEN [w \in {} |-> 0]
    ELSE LET token == TrimNonLetters(Head(tokens))
             freq == CountTokens(Tail(tokens), minLen, skipStopwords)
         IN IF RuneLen(token) < minLen THEN freq
            ELSE IF skipStopwords /\ token \in stopwords THEN freq
            ELSE IF token \in DOMAIN freq
                 THEN [freq EXCEPT ![token] = @ + 1]
                 ELSE [w \in DOMAIN freq \cup {token} |->
                          IF w = token THEN 1 ELSE freq[w]]

\* the less function of sort.Slice
PairLess(freq, u, v) ==
    IF freq[u] = freq[v] THEN WordLess(u, v) ELSE freq[u] > freq[v]

\* sort.Slice over the pairs of freq: the order is total, so the result is
\* the one sorted sequence
RECURSIVE SortPairs(_, _)
SortPairs(freq, words) ==
    IF words = {} THEN <<>>
    ELSE LET first == CHOOSE u \in words :
                          \A v \in words \ {u} : PairLess(freq, u, v)
         IN <<first>> \o SortPairs(freq, words \ {first})

KeywordsOf(text, limit, minLen, skipStopwords) ==
    LET clean == ToLower(CleanText(text))
    IN IF clean = <<>> THEN <<>>
       ELSE LET freq == CountTokens(Fields(clean), minLen, skipStopwords)
                pairs == SortPairs(freq, DOMAIN freq)
                max == IF limit <= 0 \/ limit > Len(pairs) THEN Len(pairs) ELSE limit
            IN SubSeq(pairs, 1, max)

\* An ExtractKeywords that does not skip the stop-words.
ExtractKeywordsKeepsStopwords(text, limit, minLen) ==
    KeywordsOf(text, limit, minLen, FALSE)

ExtractKeywords(text, limit, minLen) == KeywordsOf(text, limit, minLen, TRUE)

GenerateTitleFromText(text, maxWords) ==
    IF text = <<>> THEN <<>>
    ELSE LET textWithoutURLs == RemoveURLs(text)
             sentenceEnd == IndexAny(textWithoutURLs, SentenceEnd)
             firstSentence == IF sentenceEnd > 0
                              THEN TrimSpace(SubSeq(textWithoutURLs, 1, sentenceEnd))
                              ELSE textWithoutURLs
             words == Fields(firstSentence)
         IN IF Len(words) = 0 THEN <<>>
            ELSE IF maxWords > 0 /\ Len(words) > maxWords
                 THEN Join(SubSeq(words, 1, maxWords)) \o <<".", ".", ".">>
                 ELSE Join(words)

\* ts.UTC().Format(time.RFC3339): whole seconds
FormatRFC3339(ts) == ts.t

\* SHA-1 of title + "|" + text + "|" + stamp, taken as collision-free
BuildDocumentID(title, text, ts) ==
    [s |-> title \o <<"|">> \o text \o <<"|">>, stamp |-> FormatRFC3339(ts)]

----------------------------------------------------------------------------
(* internal/dedupe: Cache *)

EmptyMap == [k \in {} |-> ZeroTime]

Put(items, key, ts) ==
    [k \in DOMAIN items \cup {key} |-> IF k = key THEN ts ELSE items[k]]

Delete(items, key) == [k \in DOMAIN items \ {key} |-> items[k]]

NewCache(capacity, ttl) ==
    [items    |-> EmptyMap,
     order    |-> <<>>,
     capacity |-> IF capacity <= 0 THEN 1 ELSE capacity,
     ttl      |-> IF ttl <= 0 THEN Hour ELSE ttl]

\* An IsSeen that trusts compaction to expire entries and checks no ttl.
IsSeenNoTTL(c, key, at) == key \in DOMAIN c.items

\* now.Sub(ts) <= c.ttl
IsSeen(c, key, at) ==
    /\ key \in DOMAIN c.items
    /\ ~Before(Add(c.items[key], c.ttl), at)

\* A compaction that deletes the map entry whatever timestamp it holds.
RECURSIVE compactNoStaleCheck(_, _)
compactNoStaleCheck(c, at) ==
    IF /\ Len(c.order) > 0
       /\ \/ Cardinality(DOMAIN c.items) > c.capacity
          \/ Before(c.order[1].ts, Add(at, -c.ttl))
    THEN compactNoStaleCheck(
             [c EXCEPT !.order = Tail(c.order),
                       !.items = Delete(c.items, c.order[1].key)], at)
    ELSE c

RECURSIVE compactLoop(_, _)
compactLoop(c, at) ==
    IF /\ Len(c.order) > 0
       /\ \/ Cardinality(DOMAIN c.items) > c.capacity
          \/ Before(c.order[1].ts, Add(at, -c.ttl))
    THEN LET oldest == c.order[1]
             stale  == ~(oldest.key \in DOMAIN c.items /\ c.items[oldest.key] = oldest.ts)
         IN compactLoop(
                [c EXCEPT !.order = Tail(c.order),
                          !.items = IF stale THEN c.items
                                    ELSE Delete(c.items, oldest.key)], at)
    ELSE c

\* A compaction that evicts as soon as the map holds `capacity` keys.
RECURSIVE compactAtCapacity(_, _)
compactAtCapacity(c, at) ==
    IF /\ Len(c.order) > 0
       /\ \/ Cardinality(DOMAIN c.items) >= c.capacity
          \/ Before(c.order[1].ts, Add(at, -c.ttl))
    THEN LET oldest == c.order[1]
             stale  == ~(oldest.key \in DOMAIN c.items /\ c.items[oldest.key] = oldest.ts)
         IN compactAtCapacity(
                [c EXCEPT !.order = Tail(c.order),
                          !.items = IF stale THEN c.items
                                    ELSE Delete(c.items, oldest.key)], at)
    ELSE c

\* A compaction that expires old entries and enforces no capacity.
RECURSIVE compactTtlOnly(_, _)
compactTtlOnly(c, at) ==
    IF Len(c.order) > 0 /\ Before(c.order[1].ts, Add(at, -c.ttl))
    THEN LET oldest == c.order[1]
             stale  == ~(oldest.key \in DOMAIN c.items /\ c.items[oldest.key] = oldest.ts)
         IN compactTtlOnly(
                [c EXCEPT !.order = Tail(c.order),
                          !.items = IF stale THEN c.items
                                    ELSE Delete(c.items, oldest.key)], at)
    ELSE c

\* A compaction that enforces the capacity and expires nothing.
RECURSIVE compactCapacityOnly(_, _)
compactCapacityOnly(c, at) ==
    IF Len(c.order) > 0 /\ Cardinality(DOMAIN c.items) > c.capacity
    THEN LET oldest == c.order[1]
             stale  == ~(oldest.key \in DOMAIN c.items /\ c.items[oldest.key] = oldest.ts)
         IN compactCapacityOnly(
                [c EXCEPT !.order = Tail(c.order),
                          !.items = IF stale THEN c.items
                                    ELSE Delete(c.items, oldest.key)], at)
    ELSE c

compact(c, at) == compactLoop(c, at)

\* A MarkSeen that stores the key without a history entry.
MarkSeenNoHistory(c, key, at) ==
    compact([c EXCEPT !.items = Put(c.items, key, at)], at)

MarkSeen(c, key, at) ==
    compact([c EXCEPT !.items = Put(c.items, key, at),
                      !.order = Append(c.order, [key |-> key, ts |-> at])], at)

\* An IsSeen that deletes the entry it finds expired.
IsSeenCallEvicting(c, key, at) ==
    [seen  |-> IsSeen(c, key, at),
     cache |-> IF key \in DOMAIN c.items /\ ~IsSeen(c, key, at)
               THEN [c EXCEPT !.items = Delete(c.items, key)]
               ELSE c]

\* The whole IsSeen method: the value it returns and the cache it leaves.
IsSeenCall(c, key, at) == [seen |-> IsSeen(c, key, at), cache |-> c]

\* A call made on the cache: the method, its key, the instant it read and
\* what it returned (MarkSeen returns nothing: FALSE).
CacheCall(op, key, at, seen) == [op |-> op, key |-> key, at |-> at, seen |-> seen]
NoCacheCall == CacheCall("none", NoKey, ZeroTime, FALSE)

\* The goroutines that call the cache, none of them in a call
Goroutines == {"g1", "g2"}
NoCalls == [g \in Goroutines |-> NoCacheCall]

----------------------------------------------------------------------------
(* The clock *)

\* time.Now() for a reading that the cache only compares
ReadNow == [t |-> now, n |-> seq + 1]

Tick ==
    /\ now < MaxNow
    /\ now' = now + 1
    /\ UNCHANGED <<otherVars, cache, seq, cacheHist, sweep, procVars, workerVars>>

----------------------------------------------------------------------------
(* worker: processMessage *)

TitleMaxWords == 10

\* A raw timestamp is [fmt, sec]: the layout the string is written in and
\* the second it names.  time.Parse accepts the three layouts of formats.
TimestampLayouts == {"RFC3339Nano", "RFC3339", "legacy"}

parseTimestamp(raw) ==
    IF raw.fmt = "empty" THEN ZeroTime
    ELSE IF raw.fmt \in TimestampLayouts THEN [t |-> raw.sec, n |-> 0]
    ELSE ZeroTime

NoDoc == [id |-> [s |-> <<>>, stamp |-> -1], title |-> <<>>, text |-> <<>>,
          timestamp |-> ZeroTime, urls |-> <<>>]

NoCall == [payload |-> [valid |-> FALSE, title |-> <<>>, text |-> <<>>,
                        timestamp |-> [fmt |-> "empty", sec |-> 0]],
           err |-> "none", dup |-> FALSE, indexCalled |-> FALSE, doc |-> NoDoc]

\* A document that is always stamped with the instant of processing.
BuildDocumentStampsNow(payload, at) ==
    LET trimmedTitle == TrimSpace(payload.title)
        text == TrimSpace(payload.text)
        title == IF trimmedTitle = <<>> /\ text # <<>>
                 THEN GenerateTitleFromText(text, TitleMaxWords)
                 ELSE trimmedTitle
        cleanedText == CleanText(text)
    IN [id |-> BuildDocumentID(title, cleanedText, at),
        title |-> title,
        text |-> text,
        timestamp |-> at,
        urls |-> ExtractURLs(text)]

\* A document that keeps what parseTimestamp returns, the zero time too.
BuildDocumentKeepsZero(payload, at) ==
    LET trimmedTitle == TrimSpace(payload.title)
        text == TrimSpace(payload.text)
        title == IF trimmedTitle = <<>> /\ text # <<>>
                 THEN GenerateTitleFromText(text, TitleMaxWords)
                 ELSE trimmedTitle
        ts == parseTimestamp(payload.timestamp)
        cleanedText == CleanText(text)
    IN [id |-> BuildDocumentID(title, cleanedText, ts),
        title |-> title,
        text |-> text,
        timestamp |-> ts,
        urls |-> ExtractURLs(text)]

\* A document whose id is built from the text as received.
BuildDocumentRawText(payload, at) ==
    LET trimmedTitle == TrimSpace(payload.title)
        text == TrimSpace(payload.text)
        title == IF trimmedTitle = <<>> /\ text # <<>>
                 THEN GenerateTitleFromText(text, TitleMaxWords)
                 ELSE trimmedTitle
        parsed == parseTimestamp(payload.timestamp)
        ts == IF IsZero(parsed) THEN at ELSE parsed
    IN [id |-> BuildDocumentID(title, text, ts),
        title |-> title,
        text |-> text,
        timestamp |-> ts,
        urls |-> ExtractURLs(text)]

\* The document the worker builds from a decoded payload, read at instant at
BuildDocument(payload, at) ==
    LET trimmedTitle == TrimSpace(payload.title)
        text == TrimSpace(payload.text)
        title == IF trimmedTitle = <<>> /\ text # <<>>
                 THEN GenerateTitleFromText(text, TitleMaxWords)
                 ELSE trimmedTitle
        parsed == parseTimestamp(payload.timestamp)
        ts == IF IsZero(parsed) THEN at ELSE parsed
        cleanedText == CleanText(text)
    IN [id |-> BuildDocumentID(title, cleanedText, ts),
        title |-> title,
        text |-> text,
        timestamp |-> ts,
        urls |-> ExtractURLs(text)]

\* Client.IndexNews: the document is written under its id
IndexNews(idx, doc) == {d \in idx : d.id # doc.id} \cup {doc}

\* A processMessage that marks the id again when it drops a duplicate.
processMessageRemark(c, idx, payload, at, indexOk) ==
    LET doc == BuildDocument(payload, at)
        unchanged == [err |-> "none", dup |-> FALSE, indexCalled |-> FALSE,
                      doc |-> NoDoc, cache |-> c, index |-> idx]
    IN IF ~payload.valid THEN [unchanged EXCEPT !.err = "json"]
       ELSE IF TrimSpace(payload.title) = <<>> /\ TrimSpace(payload.text) = <<>>
            THEN [unchanged EXCEPT !.err = "empty payload"]
       ELSE IF IsSeen(c, doc.id, at)
            THEN [unchanged EXCEPT !.dup = TRUE, !.doc = doc,
                                   !.cache = MarkSeen(c, doc.id, at)]
       ELSE IF ~indexOk
            THEN [unchanged EXCEPT !.err = "index", !.indexCalled = TRUE, !.doc = doc]
       ELSE [err |-> "none", dup |-> FALSE, indexCalled |-> TRUE, doc |-> doc,
             cache |-> MarkSeen(c, doc.id, at), index |-> IndexNews(idx, doc)]

\* A processMessage without the check for an empty payload.
processMessageNoEmptyCheck(c, idx, payload, at, indexOk) ==
    LET doc == BuildDocument(payload, at)
        unchanged == [err |-> "none", dup |-> FALSE, indexCalled |-> FALSE,
                      doc |-> NoDoc, cache |-> c, index |-> idx]
    IN IF ~payload.valid THEN [unchanged EXCEPT !.err = "json"]
       ELSE IF IsSeen(c, doc.id, at)
            THEN [unchanged EXCEPT !.dup = TRUE, !.doc = doc]
       ELSE IF ~indexOk
            THEN [unchanged EXCEPT !.err = "index", !.indexCalled = TRUE, !.doc = doc]
       ELSE [err |-> "none", dup |-> FALSE, indexCalled |-> TRUE, doc |-> doc,
             cache |-> MarkSeen(c, doc.id, at), index |-> IndexNews(idx, doc)]

\* A processMessage that marks the id seen before it calls IndexNews.
processMessageMarksFirst(c, idx, payload, at, indexOk) ==
    LET doc == BuildDocument(payload, at)
        unchanged == [err |-> "none", dup |-> FALSE, indexCalled |-> FALSE,
                      doc |-> NoDoc, cache |-> c, index |-> idx]
    IN IF ~payload.valid THEN [unchanged EXCEPT !.err = "json"]
       ELSE IF TrimSpace(payload.title) = <<>> /\ TrimSpace(payload.text) = <<>>
            THEN [unchanged EXCEPT !.err = "empty payload"]
       ELSE IF IsSeen(c, doc.id, at)
            THEN [unchanged EXCEPT !.dup = TRUE, !.doc = doc]
       ELSE IF ~indexOk
            THEN [unchanged EXCEPT !.err = "index", !.indexCalled = TRUE, !.doc = doc,
                                   !.cache = MarkSeen(c, doc.id, at)]
       ELSE [err |-> "none", dup |-> FALSE, indexCalled |-> TRUE, doc |-> doc,
             cache |-> MarkSeen(c, doc.id, at), index |-> IndexNews(idx, doc)]

\* processMessage(msg) on cache c at instant at; indexOk is the outcome of
\* the IndexNews call, should the call be made.  The result names the error
\* returned ("none" for nil), whether the message was dropped as a
\* duplicate, whether IndexNews was called, the document, and the cache
\* and index afterwards.
processMessage(c, idx, payload, at, indexOk) ==
    LET doc == BuildDocument(payload, at)
        unchanged == [err |-> "none", dup |-> FALSE, indexCalled |-> FALSE,
                      doc |-> NoDoc, cache |-> c, index |-> idx]
    IN IF ~payload.valid THEN [unchanged EXCEPT !.err = "json"]
       ELSE IF TrimSpace(payload.title) = <<>> /\ TrimSpace(payload.text) = <<>>
            THEN [unchanged EXCEPT !.err = "empty payload"]
       ELSE IF IsSeen(c, doc.id, at)
            THEN [unchanged EXCEPT !.dup = TRUE, !.doc = doc]
       ELSE IF ~indexOk
            THEN [unchanged EXCEPT !.err = "index", !.indexCalled = TRUE, !.doc = doc]
       ELSE [err |-> "none", dup |-> FALSE, indexCalled |-> TRUE, doc |-> doc,
             cache |-> MarkSeen(c, doc.id, at), index |-> IndexNews(idx, doc)]

----------------------------------------------------------------------------
(* internal/elasticsearch: Client.DeleteOlderThan, called by the retention  *)
(* job.  The cutoff and the documents' timestamps are compared at the       *)
(* resolution of the cutoff's RFC3339 text, whole seconds.                  *)

DefaultBatchSize == 1000

\* if batchSize <= 0 { batchSize = 1000 }
BatchSize(batchSize) == IF batchSize <= 0 THEN DefaultBatchSize ELSE batchSize

\* time.Now().Add(-maxAge).UTC().Format(time.RFC3339)
Cutoff(at, maxAge) == FormatRFC3339(Add(at, -maxAge))

\* The documents the query range timestamp lte cutoff matches
Matches(idx, cutoff) == {d \in idx : FormatRFC3339(d.timestamp) <= cutoff}

RECURSIVE Sum(_)
Sum(ns) == IF ns = <<>> THEN 0 ELSE Head(ns) + Sum(Tail(ns))

\* The retention service is not running, and no function was called
NoRetention == [pc |-> "off"]
NoFn == [op |-> "none"]

\* No DeleteOlderThan call has been made
NoSweep == [pc |-> "idle", maxAge |-> 0, asked |-> 0, batchSize |-> 0,
            startedAt |-> ZeroTime, cutoff |-> 0, totalDeleted |-> 0,
            rounds |-> <<>>, removed |-> {}, result |-> -1, err |-> FALSE]

----------------------------------------------------------------------------
(* processMessage driven directly, as the worker's tests drive it: one     *)
(* cache, one index, any sequence of messages                              *)

RFC(sec) == [fmt |-> "RFC3339", sec |-> sec]
NoStamp == [fmt |-> "empty", sec |-> 0]
BadStamp == [fmt |-> "invalid", sec |-> 0]

BadJSON  == [valid |-> FALSE, title |-> <<>>, text |-> <<>>, timestamp |-> NoStamp]
Blank    == [valid |-> TRUE, title |-> <<" ">>, text |-> <<>>, timestamp |-> RFC(1)]
News     == [valid |-> TRUE, title |-> <<"a">>, text |-> <<"b", ".">>, timestamp |-> RFC(1)]
Undated  == [valid |-> TRUE, title |-> <<"a">>, text |-> <<"b", ".">>, timestamp |-> BadStamp]
Untitled == [valid |-> TRUE, title |-> <<" ">>, text |-> <<"b", ".", "a">>,
             timestamp |-> [fmt |-> "legacy", sec |-> 1]]
LinkOnly == [valid |-> TRUE, title |-> <<>>, text |-> <<"h", "a">>,
             timestamp |-> [fmt |-> "RFC3339Nano", sec |-> 1]]
\* "timestamp": "", and "timestamp": "0001-01-01T00:00:00Z"
Unstamped == [valid |-> TRUE, title |-> <<"b">>, text |-> <<>>, timestamp |-> NoStamp]
Ancient  == [valid |-> TRUE, title |-> <<"b">>, text |-> <<>>, timestamp |-> RFC(ZeroTime.t)]
\* News again from another channel: "&amp;b  http://a", the same second
Decorated == [valid |-> TRUE, title |-> <<"a", " ">>,
              text |-> <<"e", "b", " ", " ", "h", "a">>,
              timestamp |-> [fmt |-> "legacy", sec |-> 1]]

Payloads == {BadJSON, Blank, News, Undated, Untitled, LinkOnly, Unstamped, Ancient,
             Decorated}

\* The worker's state where no worker runs
WorkerIdle ==
    /\ log = <<>>
    /\ committed = 0
    /\ pos = 0
    /\ pc = "stopped"
    /\ cur = -1
    /\ attempt = 0
    /\ cancelled = FALSE
    /\ restarts = 0
    /\ dlq = {}
    /\ ev = <<>>
    /\ done = {}

ProcInit ==
    /\ cache = NewCache(Capacity, TTL)
    /\ now = 0
    /\ seq = 0
    /\ marked = [k \in {} |-> ZeroTime]
    /\ lastMarked = NoKey
    /\ lastCall = NoCacheCall
    /\ index = {}
    /\ last = NoCall
    /\ idxLog = <<>>
    /\ sweep = NoSweep
    /\ ret = NoRetention
    /\ fn = NoFn
    /\ calls = NoCalls
    /\ WorkerIdle

CallProcessMessage(payload, indexOk) ==
    LET r == processMessage(cache, index, payload, ReadNow, indexOk)
        indexed == r.indexCalled /\ r.err = "none"
    IN /\ Len(idxLog) < MaxIndexed
       /\ cache' = r.cache
       /\ index' = r.index
       /\ seq' = IF indexed THEN seq + 1 ELSE seq
       /\ last' = [payload |-> payload, err |-> r.err, dup |-> r.dup,
                   indexCalled |-> r.indexCalled, doc |-> r.doc]
       /\ idxLog' = IF indexed
                    THEN Append(idxLog, [id |-> r.doc.id, at |-> ReadNow])
                    ELSE idxLog
       /\ UNCHANGED <<otherVars, now, cacheHist, sweep, workerVars>>

ProcNext ==
    \/ \E payload \in Payloads, indexOk \in BOOLEAN : CallProcessMessage(payload, indexOk)
    \/ Tick

ProcSpec == ProcInit /\ [][ProcNext]_vars

----------------------------------------------------------------------------
(* worker: main.  One partition of the input topic, one consumer group.    *)
(* pc names the statement the loop stands at:                              *)
(*   "fetch"    reader.FetchMessage                                        *)
(*   "process"  processMessage on the message fetched                      *)
(*   "dlq"      dlqWriter.WriteMessages, attempt `attempt`                 *)
(*   "backoff"  the select on time.After(backoff) and ctx.Done()           *)
(*   "commit"   reader.CommitMessages                                      *)
(*   "stopped"  main has returned                                          *)

DlqAttempts == 5

WorkerPayloads == {BadJSON, Blank, News}

Event(e) == [e |-> e, secs |-> 0]
Waited(secs) == [e |-> "wait", secs |-> secs]

RECURSIVE Pow2(_)
Pow2(k) == IF k = 0 THEN 1 ELSE 2 * Pow2(k - 1)

\* A backoff that grows by one second per attempt instead of doubling.
BackoffLinear(k) == k + 1

\* time.Duration(1<<uint(attempt)) * time.Second
Backoff(k) == Pow2(k)

Min(a, b) == IF a < b THEN a ELSE b

Init ==
    /\ cache = NewCache(Capacity, TTL)
    /\ now = 0
    /\ seq = 0
    /\ marked = [k \in {} |-> ZeroTime]
    /\ lastMarked = NoKey
    /\ lastCall = NoCacheCall
    /\ index = {}
    /\ last = NoCall
    /\ idxLog = <<>>
    /\ log = <<>>
    /\ committed = 0
    /\ pos = 0
    /\ pc = "fetch"
    /\ cur = -1
    /\ attempt = 0
    /\ cancelled = FALSE
    /\ restarts = 0
    /\ dlq = {}
    /\ ev = <<>>
    /\ done = {}
    /\ sweep = NoSweep
    /\ ret = NoRetention
    /\ fn = NoFn
    /\ calls = NoCalls

\* The scraper publishes a message to the topic
Produce(payload) ==
    /\ Len(log) < MaxLog
    /\ log' = Append(log, payload)
    /\ UNCHANGED <<otherVars, cache, clockVars, cacheHist, sweep, procVars, committed, pos, pc, cur,
                   attempt, cancelled, restarts, dlq, ev, done>>

\* SIGTERM or SIGINT cancels the root context
Signal ==
    /\ pc # "stopped"
    /\ ~cancelled
    /\ cancelled' = TRUE
    /\ UNCHANGED <<otherVars, cache, clockVars, cacheHist, sweep, procVars, log, committed, pos, pc,
                   cur, attempt, restarts, dlq, ev, done>>

\* A fetch of the next message while the commit of the one in hand is
\* still to be made.
FetchAhead ==
    /\ pc \in {"fetch", "commit"}
    /\ pos < Len(log)
    /\ cur' = pos
    /\ pos' = pos + 1
    /\ pc' = "process"
    /\ ev' = <<Event("fetch")>>
    /\ attempt' = 0
    /\ UNCHANGED <<otherVars, cache, clockVars, cacheHist, sweep, procVars, log, committed, cancelled,
                   restarts, dlq, done>>

\* FetchMessage returns the next message of the partition
Fetch ==
    /\ pc = "fetch"
    /\ pos < Len(log)
    /\ cur' = pos
    /\ pos' = pos + 1
    /\ pc' = "process"
    /\ ev' = <<Event("fetch")>>
    /\ attempt' = 0
    /\ UNCHANGED <<otherVars, cache, clockVars, cacheHist, sweep, procVars, log, committed, cancelled,
                   restarts, dlq, done>>

\* FetchMessage returns an error that is not context.Canceled: continue
FetchError ==
    /\ pc = "fetch"
    /\ UNCHANGED vars

\* FetchMessage returns context.Canceled: main returns
FetchCanceled ==
    /\ pc = "fetch"
    /\ cancelled
    /\ pc' = "stopped"
    /\ UNCHANGED <<otherVars, cache, clockVars, cacheHist, sweep, procVars, log, committed, pos, cur,
                   attempt, cancelled, restarts, dlq, ev, done>>

\* processMessage returns; nil leads to the commit, an error to the DLQ loop
Process(indexOk) ==
    LET r == processMessage(cache, index, log[cur + 1], ReadNow, indexOk)
        indexed == r.indexCalled /\ r.err = "none"
    IN /\ pc = "process"
       /\ cache' = r.cache
       /\ index' = r.index
       /\ seq' = IF indexed THEN seq + 1 ELSE seq
       /\ last' = [payload |-> log[cur + 1], err |-> r.err, dup |-> r.dup,
                   indexCalled |-> r.indexCalled, doc |-> r.doc]
       /\ idxLog' = IF indexed
                    THEN Append(idxLog, [id |-> r.doc.id, at |-> ReadNow])
                    ELSE idxLog
       /\ ev' = Append(ev, Event(IF r.err # "none" THEN "failed"
                                 ELSE IF r.dup THEN "duplicate" ELSE "indexed"))
       /\ done' = IF r.err = "none" THEN done \cup {cur} ELSE done
       /\ pc' = IF r.err = "none" THEN "commit" ELSE "dlq"
       /\ attempt' = 0
       /\ UNCHANGED <<otherVars, now, cacheHist, sweep, log, committed, pos, cur, cancelled, restarts,
                      dlq>>

\* A DLQ write that succeeds and goes on to the next message without the
\* commit.
DlqWriteOkNoCommit ==
    /\ pc = "dlq"
    /\ dlq' = dlq \cup {[value |-> log[cur + 1], original_offset |-> cur,
                         error |-> last.err]}
    /\ ev' = Append(ev, Event("dlq ok"))
    /\ pc' = "fetch"
    /\ UNCHANGED <<otherVars, cache, clockVars, cacheHist, sweep, procVars, log, committed, pos, cur,
                   attempt, cancelled, restarts, done>>

\* dlqWriter.WriteMessages succeeds: dlqSuccess, break
DlqWriteOk ==
    /\ pc = "dlq"
    /\ dlq' = dlq \cup {[value |-> log[cur + 1], original_offset |-> cur,
                         error |-> last.err]}
    /\ ev' = Append(ev, Event("dlq ok"))
    /\ pc' = "commit"
    /\ UNCHANGED <<otherVars, cache, clockVars, cacheHist, sweep, procVars, log, committed, pos, cur,
                   attempt, cancelled, restarts, done>>

\* dlqWriter.WriteMessages fails: wait for the backoff or for cancellation
DlqWriteFails ==
    /\ pc = "dlq"
    /\ ev' = Append(ev, Event("dlq failed"))
    /\ pc' = "backoff"
    /\ UNCHANGED <<otherVars, cache, clockVars, cacheHist, sweep, procVars, log, committed, pos, cur,
                   attempt, cancelled, restarts, dlq, done>>

\* A retry loop that commits the message once its attempts are exhausted,
\* whether or not a DLQ write succeeded.
BackoffElapsedAlwaysCommit ==
    /\ pc = "backoff"
    /\ ~cancelled
    /\ now' = Min(now + Backoff(attempt), MaxNow)
    /\ ev' = Append(ev, Waited(Backoff(attempt)))
    /\ attempt' = attempt + 1
    /\ pc' = IF attempt + 1 < DlqAttempts THEN "dlq" ELSE "commit"
    /\ UNCHANGED <<otherVars, cache, seq, cacheHist, sweep, procVars, log, committed, pos, cur,
                   cancelled, restarts, dlq, done>>

\* A wait that runs its whole backoff although the context is done.
BackoffElapsedIgnoresCancel ==
    /\ pc = "backoff"
    /\ now' = Min(now + Backoff(attempt), MaxNow)
    /\ ev' = Append(ev, Waited(Backoff(attempt)))
    /\ attempt' = attempt + 1
    /\ pc' = IF attempt + 1 < DlqAttempts THEN "dlq" ELSE "fetch"
    /\ UNCHANGED <<otherVars, cache, seq, cacheHist, sweep, procVars, log, committed, pos, cur,
                   cancelled, restarts, dlq, done>>

\* time.After(backoff) fires: the next attempt, or the loop is exhausted and
\* the message is left uncommitted.  The wait is charged to the clock as far
\* as the clock's bound allows.  The select is woken by the first channel
\* to become ready, so the timer wins only while the context is not done.
BackoffElapsed ==
    /\ pc = "backoff"
    /\ ~cancelled
    /\ now' = Min(now + Backoff(attempt), MaxNow)
    /\ ev' = Append(ev, Waited(Backoff(attempt)))
    /\ attempt' = attempt + 1
    /\ pc' = IF attempt + 1 < DlqAttempts THEN "dlq" ELSE "fetch"
    /\ UNCHANGED <<otherVars, cache, seq, cacheHist, sweep, procVars, log, committed, pos, cur,
                   cancelled, restarts, dlq, done>>

\* ctx.Done() wins the select: main returns
BackoffCanceled ==
    /\ pc = "backoff"
    /\ cancelled
    /\ pc' = "stopped"
    /\ UNCHANGED <<otherVars, cache, clockVars, cacheHist, sweep, procVars, log, committed, pos, cur,
                   attempt, cancelled, restarts, dlq, ev, done>>

\* A commit whose error ends the loop instead of being logged.
CommitStopsOnError(ok) ==
    /\ pc = "commit"
    /\ committed' = IF ok THEN cur + 1 ELSE committed
    /\ ev' = Append(ev, Event(IF ok THEN "commit" ELSE "commit failed"))
    /\ pc' = IF ok THEN "fetch" ELSE "stopped"
    /\ UNCHANGED <<otherVars, cache, clockVars, cacheHist, sweep, procVars, log, pos, cur, attempt,
                   cancelled, restarts, dlq, done>>

\* reader.CommitMessages(ctx, msg): the group's offset becomes msg.Offset+1;
\* an error is logged and the loop goes on
Commit(ok) ==
    /\ pc = "commit"
    /\ committed' = IF ok THEN cur + 1 ELSE committed
    /\ ev' = Append(ev, Event(IF ok THEN "commit" ELSE "commit failed"))
    /\ pc' = "fetch"
    /\ UNCHANGED <<otherVars, cache, clockVars, cacheHist, sweep, procVars, log, pos, cur, attempt,
                   cancelled, restarts, dlq, done>>

\* The worker is started again: a new cache, a reader that resumes at the
\* group's committed offset
Restart ==
    /\ pc = "stopped"
    /\ restarts < MaxRestarts
    /\ restarts' = restarts + 1
    /\ cache' = NewCache(Capacity, TTL)
    /\ seq' = 0
    /\ last' = NoCall
    /\ idxLog' = <<>>
    /\ pos' = committed
    /\ pc' = "fetch"
    /\ cur' = -1
    /\ attempt' = 0
    /\ cancelled' = FALSE
    /\ ev' = <<>>
    /\ UNCHANGED <<otherVars, now, cacheHist, sweep, index, log, committed, dlq, done>>

Next ==
    \/ \E payload \in WorkerPayloads : Produce(payload)
    \/ Signal
    \/ Fetch
    \/ FetchError
    \/ FetchCanceled
    \/ \E indexOk \in BOOLEAN : Process(indexOk)
    \/ DlqWriteOk
    \/ DlqWriteFails
    \/ BackoffElapsed
    \/ BackoffCanceled
    \/ \E ok \in BOOLEAN : Commit(ok)
    \/ Restart
    \/ Tick

Spec == Init /\ [][Next]_vars

\* The steps of the worker's goroutine after processMessage.  The goroutine
\* is scheduled, and every call it blocks in returns: a fetch returns a
\* message or the context's error, a write or a commit returns, a select
\* takes a ready case.
WorkerStep ==
    \/ Fetch
    \/ FetchCanceled
    \/ DlqWriteOk
    \/ DlqWriteFails
    \/ BackoffElapsed
    \/ BackoffCanceled
    \/ \E ok \in BOOLEAN : Commit(ok)

\* processMessage returns, with nil or with an error: the steps of
\* Process, seen by what they do to the loop's position
ProcessReturns == pc = "process" /\ pc' \in {"commit", "dlq"}

FairSpec == Spec /\ WF_vars(WorkerStep) /\ WF_pc(ProcessReturns)

----------------------------------------------------------------------------
(* Properties of the worker loop, checked under Spec                       *)

Handled(off) == off \in done \/ \E m \in dlq : m.original_offset = off

LastEvent == IF ev = <<>> THEN "none" ELSE ev[Len(ev)].e
Disposals == {"indexed", "duplicate", "dlq ok"}
CommitEvents == {"commit", "commit failed"}
DlqEvents == {"dlq ok", "dlq failed"}

\* The positions in ev of the events named in es
Positions(es) == {i \in 1..Len(ev) : ev[i].e \in es}

\* This step is the call of reader.CommitMessages for the message in hand
CommitStep ==
    /\ pc = "commit"
    /\ cur' = cur
    /\ pos' = pos
    /\ \/ ev' = Append(ev, Event("commit")) /\ committed' = cur + 1
       \/ ev' = Append(ev, Event("commit failed")) /\ committed' = committed

\* C1: every message below the committed offset of the partition was
\* indexed, dropped as a cache duplicate, or written to the DLQ (at least
\* once: a message whose DLQ writes all failed stays uncommitted, to be
\* fetched again after a restart).
C1_AtLeastOnce == \A off \in 0..(committed - 1) : Handled(off)

\* C2: a commit is issued for the message in hand only after IndexNews
\* succeeded for it, it was dropped as a duplicate, or a DLQ write for it
\* succeeded; the committed offset moves on no other path (no auto-commit).
C2_CommitOnlyAfterDisposal ==
    /\ [](\A i \in Positions(CommitEvents) :
            \E j \in 1..(i - 1) : ev[j].e \in Disposals)
    /\ [](pc = "commit" => Positions(Disposals) # {})
    /\ [][committed' # committed =>
            CommitStep /\ Positions(Disposals) # {} /\ committed' = cur + 1]_vars

C2_Witness ==
    /\ pc = "fetch"
    /\ Len(ev) = 3
    /\ ev[2].e = "indexed"
    /\ ev[3].e = "commit"
    /\ committed = cur + 1

\* C3: once a DLQ write for the message in hand has succeeded, the next
\* thing the worker does is call commit for that message's offset: nothing
\* lies between the DLQ write and the commit, and no message is fetched
\* before it.
C3_CommitFollowsDlqWrite ==
    /\ [][dlq' # dlq => ev' = Append(ev, Event("dlq ok")) /\ pc' = "commit"]_vars
    /\ [](LastEvent = "dlq ok" => pc = "commit")
    /\ [][LastEvent = "dlq ok" =>
            \/ CommitStep
            \/ UNCHANGED <<pc, ev, cur, pos, committed, dlq>>]_vars

C3_Witness ==
    /\ pc = "fetch"
    /\ Len(ev) >= 2
    /\ ev[Len(ev) - 1].e = "dlq ok"
    /\ ev[Len(ev)].e = "commit"
    /\ committed = cur + 1
    /\ \E m \in dlq : m.original_offset = cur

\* C4: for one failed message there are at most 5 DLQ write attempts, none
\* after a successful one, and the n-th failed attempt is followed by a wait
\* of 2^(n-1) seconds: 1, 2, 4, 8, 16.
C4_DlqRetrySchedule ==
    LET attempts == Positions(DlqEvents)
        waits == Positions({"wait"})
        failedBefore(i) == Cardinality({j \in 1..i : ev[j].e = "dlq failed"})
    IN /\ Cardinality(attempts) <= 5
       /\ \A i \in attempts : ev[i].e = "dlq ok" => \A j \in attempts : j <= i
       /\ \A i \in waits :
            /\ i > 1
            /\ ev[i - 1].e = "dlq failed"
            /\ ev[i].secs = Pow2(failedBefore(i) - 1)
            /\ ev[i].secs \in {1, 2, 4, 8, 16}
       /\ \A i \in Positions({"dlq failed"}) :
            i < Len(ev) => ev[i + 1].e = "wait"

C4_Witness ==
    /\ pc = "fetch"
    /\ Cardinality(Positions({"dlq failed"})) = 5
    /\ LastEvent = "wait"
    /\ ev[Len(ev)].secs = 16
    /\ ~Handled(cur)

\* The message in hand decodes and has a title or a text
Decodes(payload) ==
    /\ payload.valid
    /\ ~(TrimSpace(payload.title) = <<>> /\ TrimSpace(payload.text) = <<>>)

\* This step is the return of processMessage for the message in hand
ProcessStep == pc = "process" /\ pc' # "process"

\* C7: when cache.IsSeen(id) is true for the document built from the
\* message, the worker calls neither IndexNews nor the DLQ writer for it,
\* leaves the cache as it is, and goes on to commit the message's offset.
C7_DuplicateDropped ==
    /\ [][(/\ ProcessStep
           /\ Decodes(log[cur + 1])
           /\ IsSeen(cache, BuildDocument(log[cur + 1], ReadNow).id, ReadNow))
          => /\ ~last'.indexCalled
             /\ index' = index
             /\ dlq' = dlq
             /\ cache' = cache
             /\ ev' = Append(ev, Event("duplicate"))
             /\ pc' = "commit"]_vars
    /\ [](LastEvent = "duplicate" => pc = "commit")
    /\ [][LastEvent = "duplicate" =>
            \/ CommitStep /\ dlq' = dlq /\ index' = index /\ cache' = cache
            \/ UNCHANGED <<pc, ev, cur, pos, committed, dlq, index, cache>>]_vars

C7_Witness ==
    /\ pc = "fetch"
    /\ Len(ev) = 3
    /\ ev[2].e = "duplicate"
    /\ ev[3].e = "commit"
    /\ committed = cur + 1
    /\ last.dup
    /\ last.doc.id \in DOMAIN cache.items

\* C8: a message that is not valid JSON, or whose title and text are both
\* empty after trimming, is never passed to IndexNews and never marked in
\* the cache; processMessage returns an error and the worker enters the DLQ
\* loop.
C8_PoisonTakesDlqPath ==
    /\ [][(ProcessStep /\ ~Decodes(log[cur + 1]))
          => /\ last'.err # "none"
             /\ ~last'.indexCalled
             /\ index' = index
             /\ cache' = cache
             /\ pc' = "dlq"]_vars
    /\ [](\A d \in index : d.title # <<>> \/ d.text # <<>>)
    /\ [](\A off \in done : Decodes(log[off + 1]))

C8_Witness ==
    /\ pc = "dlq"
    /\ log[cur + 1] = Blank
    /\ last.err = "empty payload"
    /\ cur > 0
    /\ index # {}

\* C15: once the root context is cancelled the worker stops: a fetch
\* returns the cancellation and main returns; a backoff wait that finds the
\* context done ends at once, without the wait being served, and leaves the
\* message in hand uncommitted.
C15_CancelStopsWorker ==
    /\ cancelled ~> pc = "stopped"
    /\ [][pc' = "stopped" /\ pc # "stopped" =>
            cancelled /\ pc \in {"fetch", "backoff"}]_vars
    /\ [][(pc = "backoff" /\ cancelled /\ pc' # pc) =>
            /\ pc' = "stopped"
            /\ ev' = ev
            /\ now' = now
            /\ attempt' = attempt]_vars
    /\ [][(pc = "backoff" /\ pc' = "stopped") =>
            /\ committed' = committed
            /\ committed <= cur
            /\ dlq' = dlq]_vars
    /\ [](pc = "stopped" /\ LastEvent = "dlq failed" => committed <= cur)

C15_Witness ==
    /\ pc = "stopped"
    /\ cancelled
    /\ LastEvent = "dlq failed"
    /\ attempt = 1
    /\ cur = 1
    /\ committed = 1

\* The worker has a message in hand
Handling == pc \in {"process", "dlq", "backoff", "commit"}

\* C16: no failure of one message ends the loop.  Main returns only on
\* cancellation; a message in hand is always brought to an end, and then
\* (a processMessage error, the DLQ attempts exhausted or a commit failed
\* alike) the worker is back at the fetch of the offset after it; a fetch
\* error leaves the worker at the fetch.
C16_FailureKeepsLoopRunning ==
    /\ Handling ~> (pc = "fetch" \/ cancelled)
    /\ [][pc' = "stopped" /\ pc # "stopped" => cancelled]_vars
    /\ [][(pc = "process" /\ pc' # pc) => pc' \in {"commit", "dlq"}]_vars
    /\ [][(pc = "dlq" /\ pc' # pc) => pc' \in {"commit", "backoff"}]_vars
    /\ [][(pc = "backoff" /\ pc' # pc /\ ~cancelled) =>
            pc' = IF attempt + 1 < DlqAttempts THEN "dlq" ELSE "fetch"]_vars
    /\ [][(pc = "commit" /\ pc' # pc) => pc' = "fetch"]_vars
    /\ [][(Handling /\ pc' = "fetch") => pos' = pos /\ pos = cur + 1]_vars
    /\ [][(pc = "fetch" /\ pc' = "process") => cur' = pos /\ pos' = pos + 1]_vars

C16_Witness ==
    /\ pc = "process"
    /\ ~cancelled
    /\ restarts = 0
    /\ cur = 1
    /\ committed = 0
    /\ dlq = {}
    /\ done = {}

\* C17: one message at a time.  A message is fetched only when the one
\* before it has come to its end (a commit attempt, or the DLQ attempts
\* exhausted), and within a run the offsets in hand only grow; every commit
\* and every index write is for the message in hand, so commits are issued
\* in fetch order and index writes happen in input order.
C17_OneMessageAtATime ==
    /\ [][cur' # cur =>
            \/ /\ pc = "fetch" /\ pc' = "process"
               /\ cur' = pos /\ cur' > cur
               /\ ev = <<>> \/ LastEvent \in CommitEvents
                            \/ (LastEvent = "wait" /\ attempt = DlqAttempts)
            \/ pc = "stopped" /\ cur' = -1]_vars
    /\ [][committed' # committed =>
            /\ pc = "commit" /\ cur' = cur
            /\ committed' = cur + 1
            /\ committed' > committed]_vars
    /\ [][(idxLog' # idxLog \/ index' # index \/ done' # done) /\ pc # "stopped" =>
            /\ pc = "process" /\ cur' = cur
            /\ last'.payload = log[cur + 1]
            /\ done' = done \cup {cur}
            /\ index' # index => index' = IndexNews(index, last'.doc)
            /\ idxLog' # idxLog =>
                  idxLog' = Append(idxLog, [id |-> last'.doc.id, at |-> ReadNow])]_vars

C17_Witness ==
    /\ pc = "fetch"
    /\ restarts = 0
    /\ cur = 1
    /\ committed = 2
    /\ done = {0, 1}
    /\ Len(idxLog) = 1
    /\ index # {}

\* The message in hand carries a timestamp that one of the layouts parses
Dated(payload) == ~IsZero(parseTimestamp(payload.timestamp))

----------------------------------------------------------------------------
(* Properties of processMessage, checked under ProcSpec                    *)

\* This step is a call of processMessage
CallStep == <<last, idxLog, cache>>' # <<last, idxLog, cache>>

\* The instant the latest successful IndexNews call was marked at
LastIndexedAt == idxLog[Len(idxLog)].at

\* The call made in this step is for the payload of the call before it,
\* which decoded and was indexed
SecondOfPair ==
    /\ CallStep
    /\ last'.payload = last.payload
    /\ Decodes(last.payload)
    /\ last.err = "none"
    /\ last.indexCalled

\* C5: whatever the timestamp field holds (valid, empty or unparseable), a
\* message that decodes and was just indexed makes no second IndexNews call
\* when it is processed again on the same cache, less than the ttl after
\* the first call marked it.
C5_TwiceIndexesOnce ==
    [][(SecondOfPair /\ Before(ReadNow, Add(LastIndexedAt, cache.ttl)))
       => ~last'.indexCalled]_vars

\* The ids indexed strictly between positions i and j of idxLog
Between(i, j) == {idxLog[k].id : k \in (i + 1)..(j - 1)}

\* Positions i < j of idxLog that hold the same id with no index of that id
\* between them, the later one less than the ttl after the earlier
Reindexed(i, j) ==
    /\ i < j
    /\ idxLog[i].id = idxLog[j].id
    /\ idxLog[i].id \notin Between(i, j)
    /\ Before(idxLog[j].at, Add(idxLog[i].at, cache.ttl))

\* C6 as claimed: within the ttl of a successful index, the same triple is
\* not indexed again, whatever is processed in between.
C6_IndexedOncePerWindow ==
    \A i, j \in 1..Len(idxLog) : ~Reindexed(i, j)

\* C6: within the ttl of a successful index, the same triple is indexed
\* again only after at least `capacity` other ids were indexed in between
\* (which evicts it from the cache).
C6_IndexedOnceUnlessEvicted ==
    \A i, j \in 1..Len(idxLog) :
        Reindexed(i, j) => Cardinality(Between(i, j)) >= cache.capacity

C6_Witness ==
    /\ Len(idxLog) = 2
    /\ idxLog[1].id # idxLog[2].id
    /\ last.dup
    /\ last.doc.id = idxLog[2].id
    /\ now = idxLog[2].at.t + 1

\* C9: every indexed document with a non-empty text has a non-empty title.
C9_TitleNeverEmpty == \A d \in index : d.text # <<>> => d.title # <<>>

----------------------------------------------------------------------------
(* The cache driven directly: any sequence of MarkSeen and IsSeen calls    *)

Keys == {"a", "b", "c"}
CapacityInputs == {0, Capacity, Capacity + 1}
TtlInputs == {TTL}

CacheInit ==
    /\ \E cap \in CapacityInputs, ttl \in TtlInputs : cache = NewCache(cap, ttl)
    /\ now = 0
    /\ seq = 0
    /\ marked = [k \in Keys |-> ZeroTime]
    /\ lastMarked = NoKey
    /\ lastCall = NoCacheCall
    /\ index = {}
    /\ last = NoCall
    /\ idxLog = <<>>
    /\ sweep = NoSweep
    /\ ret = NoRetention
    /\ fn = NoFn
    /\ calls = NoCalls
    /\ WorkerIdle

CallMarkSeen(key) ==
    /\ seq < MaxReads
    /\ cache' = MarkSeen(cache, key, ReadNow)
    /\ seq' = seq + 1
    /\ marked' = [marked EXCEPT ![key] = ReadNow]
    /\ lastMarked' = key
    /\ lastCall' = CacheCall("MarkSeen", key, ReadNow, FALSE)
    /\ UNCHANGED <<otherVars, now, procVars, sweep, workerVars>>

CallIsSeen(key) ==
    /\ cache' = IsSeenCall(cache, key, ReadNow).cache
    /\ lastCall' = CacheCall("IsSeen", key, ReadNow, IsSeenCall(cache, key, ReadNow).seen)
    /\ UNCHANGED <<otherVars, clockVars, marked, lastMarked, procVars, sweep, workerVars>>

CacheNext ==
    \/ \E key \in Keys : CallMarkSeen(key)
    \/ \E key \in Keys : CallIsSeen(key)
    \/ Tick

CacheSpec == CacheInit /\ [][CacheNext]_vars

----------------------------------------------------------------------------
(* Properties of the cache, checked under CacheSpec                        *)

\* C10: right after MarkSeen(k), and for as long as no other MarkSeen call
\* is made and less than the ttl has passed, IsSeen(k) is true; once more
\* than the ttl has passed since the last MarkSeen(k), IsSeen(k) is false.
C10_SeenWithinTtl ==
    /\ (lastMarked # NoKey /\ Before(ReadNow, Add(marked[lastMarked], cache.ttl)))
       => IsSeen(cache, lastMarked, ReadNow)
    /\ \A k \in DOMAIN marked :
         (marked[k] # ZeroTime /\ Before(Add(marked[k], cache.ttl), ReadNow))
         => ~IsSeen(cache, k, ReadNow)

C10_Witness ==
    /\ lastMarked = "a"
    /\ "a" \in DOMAIN cache.items
    /\ Before(Add(marked["a"], cache.ttl), ReadNow)
    /\ ~IsSeen(cache, "a", ReadNow)

\* The keys marked so far, and those IsSeen reports at this instant
MarkedKeys == {k \in DOMAIN marked : marked[k] # ZeroTime}
SeenKeys == {k \in DOMAIN marked : IsSeen(cache, k, ReadNow)}

\* Every MarkSeen call so far had a key of its own, and none has expired
DistinctUnexpired ==
    /\ Cardinality(MarkedKeys) = seq
    /\ \A k \in MarkedKeys : Before(ReadNow, Add(marked[k], cache.ttl))

\* C11: after MarkSeen calls with pairwise distinct keys and no expiry, at
\* most `capacity` keys are seen, and they are exactly the most recently
\* marked ones: min(capacity, calls) keys, each marked after every key that
\* is not seen.
C11_CapacityKeepsNewest ==
    DistinctUnexpired =>
        /\ Cardinality(SeenKeys) <= cache.capacity
        /\ Cardinality(SeenKeys) = Min(cache.capacity, seq)
        /\ SeenKeys \subseteq MarkedKeys
        /\ \A k \in SeenKeys, j \in MarkedKeys \ SeenKeys :
               Before(marked[j], marked[k])

C11_Witness ==
    /\ DistinctUnexpired
    /\ cache.capacity = 1
    /\ seq = 2
    /\ Before(marked["a"], marked["b"])
    /\ marked["a"] # ZeroTime
    /\ SeenKeys = {"b"}
    /\ lastCall.op = "IsSeen" /\ lastCall.key = "a" /\ ~lastCall.seen

\* C12: after any MarkSeen or IsSeen call the map holds at most `capacity`
\* keys, a capacity below 1 counting as 1.
C12_MapWithinCapacity ==
    /\ cache.capacity >= 1
    /\ Cardinality(DOMAIN cache.items) <= cache.capacity

C12_Witness ==
    /\ lastCall.op = "MarkSeen"
    /\ seq = 3
    /\ Cardinality(MarkedKeys) = 3
    /\ cache.capacity = 2
    /\ Cardinality(DOMAIN cache.items) = 2

\* Every key of the map was stored at most the ttl before the instant `at`
AllFresh(at) ==
    \A k \in DOMAIN cache.items : ~Before(Add(cache.items[k], cache.ttl), at)

\* C13 as claimed: after any cache call, IsSeen or MarkSeen, every key of
\* the map has an age of at most the ttl.
C13_NoExpiredEntryAfterCall ==
    lastCall.op # "none" => AllFresh(lastCall.at)

\* C13: after any MarkSeen call every key of the map has an age of at most
\* the ttl; IsSeen removes nothing, so after it an expired key may still be
\* in the map, but IsSeen reports it not seen.
C13_NoExpiredEntryAfterMarkSeen ==
    /\ lastCall.op = "MarkSeen" => AllFresh(lastCall.at)
    /\ (lastCall.op = "IsSeen" /\ lastCall.seen) =>
          /\ lastCall.key \in DOMAIN cache.items
          /\ ~Before(Add(cache.items[lastCall.key], cache.ttl), lastCall.at)

C13_Witness ==
    /\ lastCall.op = "MarkSeen"
    /\ lastCall.key = "b"
    /\ cache.capacity = 2
    /\ marked["a"] # ZeroTime
    /\ Before(Add(marked["a"], cache.ttl), lastCall.at)
    /\ DOMAIN cache.items = {"b"}

\* This step is a call of IsSeen on the cache
IsSeenStep == lastCall' # lastCall /\ lastCall'.op = "IsSeen"

\* C14: IsSeen leaves the map and the history as they were, whatever it
\* returns and whether or not the key's entry has expired.
C14_IsSeenChangesNothing ==
    [][IsSeenStep => cache'.items = cache.items /\ cache'.order = cache.order
                                                /\ cache' = cache]_vars

C14_Witness ==
    /\ lastCall.op = "IsSeen"
    /\ ~lastCall.seen
    /\ lastCall.key \in DOMAIN cache.items
    /\ Before(Add(cache.items[lastCall.key], cache.ttl), lastCall.at)

----------------------------------------------------------------------------
(* The retention job's sweep, run against the index while the worker goes  *)
(* on indexing                                                             *)

MaxAgeInputs == {1, 2}
BatchSizeInputs == {0, 1, 2}
SweepPayloads == {News, Undated}

\* DeleteOlderThan is called: batchSize is normalised and the cutoff is
\* computed, once, before the loop
\* DeleteOlderThan before its first round
NewSweep(maxAge, batchSize) ==
    [pc |-> "round", maxAge |-> maxAge, asked |-> batchSize,
     batchSize |-> BatchSize(batchSize), startedAt |-> ReadNow,
     cutoff |-> Cutoff(ReadNow, maxAge), totalDeleted |-> 0,
     rounds |-> <<>>, removed |-> {}, result |-> -1, err |-> FALSE]

DeleteOlderThanStart(maxAge, batchSize) ==
    /\ sweep.pc \in {"idle", "returned"}
    /\ sweep' = NewSweep(maxAge, batchSize)
    /\ UNCHANGED <<otherVars, cache, clockVars, cacheHist, procVars, workerVars>>

\* A round that computes its cutoff from the clock as it stands.
DeleteByQueryRoundMovingCutoff(D) ==
    /\ sweep.pc = "round"
    /\ D \subseteq Matches(index, Cutoff(ReadNow, sweep.maxAge))
    /\ index' = index \ D
    /\ sweep' = [sweep EXCEPT
                   !.cutoff = Cutoff(ReadNow, sweep.maxAge),
                   !.totalDeleted = @ + Cardinality(D),
                   !.rounds = Append(@, Cardinality(D)),
                   !.removed = @ \cup D,
                   !.pc = IF Cardinality(D) < sweep.batchSize THEN "returned" ELSE "round",
                   !.result = IF Cardinality(D) < sweep.batchSize
                              THEN sweep.totalDeleted + Cardinality(D) ELSE -1]
    /\ UNCHANGED <<otherVars, cache, clockVars, cacheHist, last, idxLog, workerVars>>

\* A round that ends the loop only when it deleted nothing.
DeleteByQueryRoundUntilEmpty(D) ==
    /\ sweep.pc = "round"
    /\ D \subseteq Matches(index, sweep.cutoff)
    /\ index' = index \ D
    /\ sweep' = [sweep EXCEPT
                   !.totalDeleted = @ + Cardinality(D),
                   !.rounds = Append(@, Cardinality(D)),
                   !.removed = @ \cup D,
                   !.pc = IF Cardinality(D) = 0 THEN "returned" ELSE "round",
                   !.result = IF Cardinality(D) = 0
                              THEN sweep.totalDeleted + Cardinality(D) ELSE -1]
    /\ UNCHANGED <<otherVars, cache, clockVars, cacheHist, last, idxLog, workerVars>>

\* One round of the loop: delete-by-query with the cutoff removes documents
\* D among those it matches (version conflicts are passed over) and reports
\* how many; the loop ends when that is fewer than batchSize
DeleteByQueryRound(D) ==
    /\ sweep.pc = "round"
    /\ D \subseteq Matches(index, sweep.cutoff)
    /\ index' = index \ D
    /\ sweep' = [sweep EXCEPT
                   !.totalDeleted = @ + Cardinality(D),
                   !.rounds = Append(@, Cardinality(D)),
                   !.removed = @ \cup D,
                   !.pc = IF Cardinality(D) < sweep.batchSize THEN "returned" ELSE "round",
                   !.result = IF Cardinality(D) < sweep.batchSize
                              THEN sweep.totalDeleted + Cardinality(D) ELSE -1]
    /\ UNCHANGED <<otherVars, cache, clockVars, cacheHist, last, idxLog, workerVars>>

\* The request or its response fails: the total so far is returned with the
\* error
DeleteByQueryFails ==
    /\ sweep.pc = "round"
    /\ sweep' = [sweep EXCEPT !.pc = "returned", !.result = sweep.totalDeleted,
                              !.err = TRUE]
    /\ UNCHANGED <<otherVars, cache, clockVars, cacheHist, procVars, workerVars>>

SweepNext ==
    \/ \E payload \in SweepPayloads : CallProcessMessage(payload, TRUE)
    \/ Tick
    \/ \E maxAge \in MaxAgeInputs, batchSize \in BatchSizeInputs :
          DeleteOlderThanStart(maxAge, batchSize)
    \/ \E D \in SUBSET index : DeleteByQueryRound(D)
    \/ DeleteByQueryFails

SweepSpec == ProcInit /\ [][SweepNext]_vars

----------------------------------------------------------------------------
(* Properties of the sweep, checked under SweepSpec                        *)

\* This step is a round of the sweep's loop
RoundStep == sweep.pc = "round" /\ sweep'.rounds # sweep.rounds

\* C19: a sweep deletes only documents whose timestamp is at or before the
\* cutoff, now minus maxAge as read when DeleteOlderThan was called; a
\* document newer than that is never deleted by the sweep, and every round
\* uses that same cutoff, however long the sweep takes.
C19_SweepDeletesOnlyOld ==
    /\ [](sweep.pc # "idle" =>
            /\ sweep.cutoff = Cutoff(sweep.startedAt, sweep.maxAge)
            /\ \A d \in sweep.removed : FormatRFC3339(d.timestamp) <= sweep.cutoff)
    /\ [][RoundStep =>
            /\ sweep'.cutoff = sweep.cutoff
            /\ sweep'.startedAt = sweep.startedAt
            /\ \A d \in index \ index' : FormatRFC3339(d.timestamp) <= sweep.cutoff
            /\ \A d \in index : FormatRFC3339(d.timestamp) > sweep.cutoff
                                 => d \in index']_vars

C19_Witness ==
    /\ sweep.pc = "returned"
    /\ Len(sweep.rounds) = 2
    /\ sweep.removed # {}
    /\ now > sweep.startedAt.t
    /\ \E d \in index :
         /\ FormatRFC3339(d.timestamp) > sweep.cutoff
         /\ FormatRFC3339(d.timestamp) <= Cutoff(ReadNow, sweep.maxAge)

\* C20: the sweep repeats its round until one reports fewer than batchSize
\* deleted (1000 when the batchSize asked for is not positive), makes no
\* round after that one, and returns the sum of what the rounds reported.
C20_SweepLoopsUntilShortRound ==
    LET n == Len(sweep.rounds)
    IN /\ sweep.pc # "idle" =>
            sweep.batchSize = (IF sweep.asked <= 0 THEN 1000 ELSE sweep.asked)
       /\ \A i \in 1..(n - 1) : sweep.rounds[i] >= sweep.batchSize
       /\ sweep.pc = "round" => \A i \in 1..n : sweep.rounds[i] >= sweep.batchSize
       /\ (sweep.pc = "returned" /\ ~sweep.err) =>
            n >= 1 /\ sweep.rounds[n] < sweep.batchSize
       /\ sweep.totalDeleted = Sum(sweep.rounds)
       /\ sweep.pc = "returned" => sweep.result = Sum(sweep.rounds)

C20_Witness ==
    /\ sweep.pc = "returned"
    /\ ~sweep.err
    /\ sweep.asked = 2
    /\ sweep.rounds = <<2, 1>>
    /\ sweep.result = 3
    /\ index = {}

----------------------------------------------------------------------------
(* retention: main.  ret.pc names the statement main stands at:            *)
(*   "connect"  the top of the startup loop: elasticsearch.New and Ping    *)
(*   "backoff"  the select on time.After(retryDelay) and ctx.Done()        *)
(*   "final"    the final check after the loop                             *)
(*   "run"      the call of runOnce made on start                          *)
(*   "sweep"    runOnce: DeleteOlderThan is running                        *)
(*   "wait"     the select on ctx.Done() and ticker.C                      *)
(*   "exited"   os.Exit, or main has returned; ret.exit is the exit code   *)
(* ret.tick is the tick waiting in ticker.C, a channel of capacity one: a  *)
(* tick that finds it full is dropped.  ret.waits are the delays waited so *)
(* far, in seconds; ret.attempts counts the passes of the startup loop,    *)
(* ret.attemptOk and ret.finalOk tell how the latest pass and the final    *)
(* check ended.                                                            *)

maxRetries == 10
InitialRetryDelay == 2
MaxRetryDelay == 30
\* context.WithTimeout(ctx, 2*time.Minute), a tick of the clock being a minute
SweepTimeout == 2

\* The configuration LoadRetention returns: MaxAge and BatchSize
RetentionConfigs == [MaxAge : {1}, BatchSize : {0, 1}]

\* The documents the index holds when the service starts
OldNews == [News EXCEPT !.timestamp = RFC(0)]
StoredDocuments ==
    {BuildDocument(OldNews, [t |-> 0, n |-> 0]), BuildDocument(News, [t |-> 0, n |-> 0])}

RetInit ==
    /\ cache = NewCache(Capacity, TTL)
    /\ now = 0
    /\ seq = 0
    /\ marked = [k \in {} |-> ZeroTime]
    /\ lastMarked = NoKey
    /\ lastCall = NoCacheCall
    /\ index = StoredDocuments
    /\ last = NoCall
    /\ idxLog = <<>>
    /\ sweep = NoSweep
    /\ fn = NoFn
    /\ calls = NoCalls
    /\ WorkerIdle
    /\ \E cfg \in RetentionConfigs :
         ret = [pc |-> "connect", cfg |-> cfg, i |-> 0,
                retryDelay |-> InitialRetryDelay, esClient |-> "nil",
                cancelled |-> FALSE, tick |-> FALSE, exit |-> -1,
                waits |-> <<>>, attempts |-> 0,
                attemptOk |-> FALSE, finalOk |-> FALSE, lastErr |-> FALSE]

retFrame == <<cache, clockVars, cacheHist, procVars, sweep, fn, calls, workerVars>>

\* SIGTERM or SIGINT: the context of signal.NotifyContext is cancelled
Shutdown ==
    /\ ret.pc # "exited"
    /\ ~ret.cancelled
    /\ ret' = [ret EXCEPT !.cancelled = TRUE]
    /\ UNCHANGED retFrame

\* One pass of the startup loop up to its select: New, and Ping if New
\* returned a client.  A Ping under a cancelled context fails.
Attempt(newOk, pingOk) ==
    /\ ret.pc = "connect"
    /\ pingOk => newOk /\ ~ret.cancelled
    /\ ret' = [ret EXCEPT
                 !.attempts = @ + 1,
                 !.esClient = IF newOk THEN "ok" ELSE "nil",
                 !.attemptOk = pingOk,
                 !.pc = IF pingOk THEN "final" ELSE "backoff"]
    /\ UNCHANGED retFrame

\* A startup wait that doubles the delay without the cap.
RetryElapsedNoCap ==
    /\ ret.pc = "backoff"
    /\ ~ret.cancelled
    /\ ret' = [ret EXCEPT
                 !.waits = Append(@, ret.retryDelay),
                 !.retryDelay = ret.retryDelay * 2,
                 !.i = @ + 1,
                 !.pc = IF ret.i + 1 < maxRetries THEN "connect" ELSE "final"]
    /\ UNCHANGED retFrame

\* time.After(retryDelay) fires first
RetryElapsed ==
    /\ ret.pc = "backoff"
    /\ ~ret.cancelled
    /\ ret' = [ret EXCEPT
                 !.waits = Append(@, ret.retryDelay),
                 !.retryDelay = Min(ret.retryDelay * 2, MaxRetryDelay),
                 !.i = @ + 1,
                 !.pc = IF ret.i + 1 < maxRetries THEN "connect" ELSE "final"]
    /\ UNCHANGED retFrame

\* ctx.Done() is ready: os.Exit(0)
RetryCanceled ==
    /\ ret.pc = "backoff"
    /\ ret.cancelled
    /\ ret' = [ret EXCEPT !.pc = "exited", !.exit = 0]
    /\ UNCHANGED retFrame

\* The final check: os.Exit(1) without a client or when its Ping fails;
\* otherwise the ticker is created
FinalCheck(pingOk) ==
    /\ ret.pc = "final"
    /\ pingOk => ret.esClient = "ok" /\ ~ret.cancelled
    /\ ret' = [ret EXCEPT
                 !.finalOk = pingOk,
                 !.pc = IF pingOk THEN "run" ELSE "exited",
                 !.exit = IF pingOk THEN @ ELSE 1]
    /\ UNCHANGED retFrame

\* runOnce called on start: DeleteOlderThan(cfg.MaxAge, cfg.BatchSize) begins
RunOnce ==
    /\ ret.pc = "run"
    /\ ret' = [ret EXCEPT !.pc = "sweep"]
    /\ sweep' = NewSweep(ret.cfg.MaxAge, ret.cfg.BatchSize)
    /\ UNCHANGED <<cache, clockVars, cacheHist, procVars, fn, calls, workerVars>>

\* The ticker sends a tick; it is dropped when one is waiting already
TickerFires ==
    /\ ret.pc \in {"run", "sweep", "wait"}
    /\ ~ret.tick
    /\ ret' = [ret EXCEPT !.tick = TRUE]
    /\ UNCHANGED retFrame

\* A tick that starts runOnce while a sweep is running too.
OnTickConcurrent ==
    /\ ret.pc \in {"wait", "sweep"}
    /\ ret.tick
    /\ ret' = [ret EXCEPT !.pc = "sweep", !.tick = FALSE]
    /\ sweep' = NewSweep(ret.cfg.MaxAge, ret.cfg.BatchSize)
    /\ UNCHANGED <<cache, clockVars, cacheHist, procVars, fn, calls, workerVars>>

\* The select receives from ticker.C: runOnce
OnTick ==
    /\ ret.pc = "wait"
    /\ ret.tick
    /\ ret' = [ret EXCEPT !.pc = "sweep", !.tick = FALSE]
    /\ sweep' = NewSweep(ret.cfg.MaxAge, ret.cfg.BatchSize)
    /\ UNCHANGED <<cache, clockVars, cacheHist, procVars, fn, calls, workerVars>>

\* subCtx is past its deadline
DeadlineExceeded == now >= sweep.startedAt.t + SweepTimeout

\* A round of the sweep runOnce started; a request under a cancelled or
\* expired context fails
SweepRound(D) ==
    /\ ret.pc = "sweep"
    /\ ~ret.cancelled
    /\ ~DeadlineExceeded
    /\ DeleteByQueryRound(D)

\* The round fails: the request, its response, the 2-minute timeout or the
\* cancelled context
SweepFails ==
    /\ ret.pc = "sweep"
    /\ DeleteByQueryFails

\* A runOnce that ends the process when the sweep returned an error.
RunOnceReturnsFatal ==
    /\ ret.pc = "sweep"
    /\ sweep.pc = "returned"
    /\ ret' = [ret EXCEPT !.pc = IF sweep.err THEN "exited" ELSE "wait",
                          !.exit = IF sweep.err THEN 1 ELSE @,
                          !.lastErr = sweep.err]
    /\ UNCHANGED retFrame

\* runOnce returns: an error is logged, and main is at its select again
RunOnceReturns ==
    /\ ret.pc = "sweep"
    /\ sweep.pc = "returned"
    /\ ret' = [ret EXCEPT !.pc = "wait", !.lastErr = sweep.err]
    /\ UNCHANGED retFrame

\* The select receives from ctx.Done(): main returns
Stop ==
    /\ ret.pc = "wait"
    /\ ret.cancelled
    /\ ret' = [ret EXCEPT !.pc = "exited", !.exit = 0]
    /\ UNCHANGED retFrame

RetNext ==
    \/ Shutdown
    \/ \E newOk, pingOk \in BOOLEAN : Attempt(newOk, pingOk)
    \/ RetryElapsed
    \/ RetryCanceled
    \/ \E pingOk \in BOOLEAN : FinalCheck(pingOk)
    \/ RunOnce
    \/ TickerFires
    \/ OnTick
    \/ \E D \in SUBSET index : SweepRound(D)
    \/ SweepFails
    \/ RunOnceReturns
    \/ Stop
    \/ Tick

RetSpec == RetInit /\ [][RetNext]_vars

\* The steps main takes by itself.  Go's select picks among its ready cases
\* at random, so a Stop that is ready again and again is taken.
MainStep ==
    \/ \E newOk, pingOk \in BOOLEAN : Attempt(newOk, pingOk)
    \/ RetryElapsed
    \/ RetryCanceled
    \/ \E pingOk \in BOOLEAN : FinalCheck(pingOk)
    \/ RunOnce
    \/ \E D \in SUBSET index : SweepRound(D)
    \/ SweepFails
    \/ RunOnceReturns

FairRetSpec == RetSpec /\ WF_vars(MainStep) /\ WF_vars(OnTick) /\ SF_vars(Stop)

----------------------------------------------------------------------------
(* Properties of the retention service, checked under RetSpec and          *)
(* FairRetSpec                                                             *)

\* main is in its sweep loop
InLoop == ret.pc \in {"run", "sweep", "wait"}

\* This step begins a sweep with the configured MaxAge and BatchSize
SweepBegins ==
    /\ ret.pc # "sweep"
    /\ ret'.pc = "sweep"
    /\ sweep' = NewSweep(ret.cfg.MaxAge, ret.cfg.BatchSize)

\* This step takes the tick out of ticker.C
TickTaken == ret.tick /\ ~ret'.tick

\* C21: after startup the service runs one sweep at once and then one sweep
\* per tick; a sweep that returns an error does not stop the loop (a later
\* tick sweeps again); after a shutdown signal the loop terminates.
C21_SweepsOnStartAndPerTick ==
    /\ [][ret.pc = "run" /\ ret'.pc # "run" => SweepBegins /\ ~TickTaken]_vars
    /\ (ret.pc = "run" ~> ret.pc = "sweep")
    /\ [][ret.pc # "sweep" /\ ret'.pc = "sweep" =>
            /\ SweepBegins
            /\ ret.pc = "run" \/ (ret.pc = "wait" /\ TickTaken)]_vars
    /\ [][TickTaken => ret.pc = "wait" /\ SweepBegins]_vars
    /\ [][ret.pc = "sweep" /\ ret'.pc # "sweep" =>
            /\ ret'.pc = "wait"
            /\ ret'.exit = -1
            /\ ret'.lastErr = sweep.err]_vars
    /\ ((ret.pc = "wait" /\ ret.lastErr /\ ret.tick)
            ~> (ret.pc = "sweep" \/ ret.pc = "exited"))
    /\ ((InLoop /\ ret.cancelled) ~> (ret.pc = "exited" /\ ret.exit = 0))

C21_Witness ==
    /\ ret.pc = "sweep"
    /\ ret.lastErr
    /\ ~ret.cancelled
    /\ sweep.rounds = <<1>>
    /\ sweep.pc = "round"

\* The delays waited start at two seconds, double, and stop at thirty
WaitsDoubleToCap ==
    \A k \in 1..Len(ret.waits) :
        /\ ret.waits[k] <= MaxRetryDelay
        /\ ret.waits[k] = IF k = 1 THEN InitialRetryDelay
                          ELSE Min(2 * ret.waits[k - 1], MaxRetryDelay)

\* A shutdown signal during a backoff wait ends the process with no further
\* attempt, and an ended process does nothing
ShutdownEndsStartup ==
    /\ [][ret.pc = "backoff" /\ ret.cancelled /\ ret' # ret =>
            /\ ret'.pc = "exited"
            /\ ret'.exit = 0
            /\ ret'.attempts = ret.attempts]_vars
    /\ [][ret.pc = "exited" => ret' = ret]_vars

\* C22 as stated: at most 10 attempts to construct and Ping the client, the
\* wait between them doubling and never above 30 seconds; the sweep loop is
\* entered only after a successful Ping; the service exits with failure
\* when no attempt succeeds; a shutdown signal during a backoff wait ends
\* the process without further attempts.
C22_StartupTenAttempts ==
    /\ [](ret.attempts <= maxRetries)
    /\ []WaitsDoubleToCap
    /\ [](InLoop => ret.attemptOk \/ ret.finalOk)
    /\ [](InLoop => ret.attemptOk)
    /\ ShutdownEndsStartup

\* C22 amended: at most 10 attempts to construct and Ping the client, each
\* failed one (the tenth too) followed by a wait that doubles from 2 and
\* never exceeds 30 seconds; then a final check Pings once more; the sweep
\* loop is entered only after the final check's Ping succeeded, also when
\* all 10 attempts failed, and the service exits with failure only when
\* the final check fails; a shutdown signal during a backoff wait ends the
\* process without further attempts.
C22_StartupFinalCheckDecides ==
    /\ [](ret.attempts <= maxRetries)
    /\ []WaitsDoubleToCap
    /\ [](Len(ret.waits) <= ret.attempts)
    /\ [](InLoop => ret.finalOk)
    /\ [](ret.exit = 1 => ~ret.finalOk /\ ret.pc = "exited")
    /\ [][ret.pc # "final" /\ ret'.pc = "final" =>
            ret'.attemptOk \/ Len(ret'.waits) = maxRetries]_vars
    /\ [][ret.pc = "final" /\ ret'.pc # "final" =>
            \/ ret'.pc = "run" /\ ret'.finalOk
            \/ ret'.pc = "exited" /\ ret'.exit = 1]_vars
    /\ ShutdownEndsStartup

C22_Witness ==
    /\ InLoop
    /\ ret.attempts = maxRetries
    /\ ~ret.attemptOk
    /\ ret.finalOk
    /\ Len(ret.waits) = maxRetries
    /\ ret.waits[maxRetries] = MaxRetryDelay

----------------------------------------------------------------------------
(* internal/elasticsearch: Client.SearchNews, the request it compiles      *)

DefaultSize == 20
MaxSize == 200

\* A *time.Time: nil, or a pointer to an instant
NilTime == [set |-> FALSE, at |-> ZeroTime]
TimeAt(sec) == [set |-> TRUE, at |-> [t |-> sec, n |-> 0]]

\* A SearchNews that does not cap the size.
ClampSizeNoCap(size) == IF size <= 0 THEN DefaultSize ELSE size

ClampSize(size) ==
    IF size <= 0 THEN DefaultSize
    ELSE IF size > MaxSize THEN MaxSize
    ELSE size

ClampFrom(from) == IF from < 0 THEN 0 ELSE from

Clause(kind, field, value) == [kind |-> kind, field |-> field, value |-> value]

MustClauses(params) ==
    IF params.Query # <<>>
    THEN <<Clause("multi_match", <<"title^2", "text">>, params.Query)>>
    ELSE <<>>

\* rangeQuery: gte and lte for the bounds that are set
RangeQuery(params) ==
    [k \in {b \in {"gte", "lte"} : IF b = "gte" THEN params.Start.set ELSE params.End.set} |->
        IF k = "gte" THEN FormatRFC3339(params.Start.at) ELSE FormatRFC3339(params.End.at)]

FilterClauses(params) ==
    (IF Len(params.Keywords) > 0
     THEN <<Clause("terms", "keywords", params.Keywords)>> ELSE <<>>)
    \o (IF params.Source # <<>>
        THEN <<Clause("term", "source", params.Source)>> ELSE <<>>)
    \o (IF params.Start.set \/ params.End.set
        THEN <<Clause("range", "timestamp", RangeQuery(params))>> ELSE <<>>)

MatchAll == Clause("match_all", "", "")

\* A bool query that matches all whenever there is no must clause.
BoolQueryMatchAllWithFilters(params) ==
    LET must == MustClauses(params)
        filters == FilterClauses(params)
    IN [k \in {g \in {"must", "filter"} :
                  IF g = "must" THEN TRUE ELSE Len(filters) > 0} |->
           IF k = "filter" THEN filters
           ELSE IF Len(must) > 0 THEN must ELSE <<MatchAll>>]

\* boolQuery: a map with the keys "must" and "filter" that were set
BoolQuery(params) ==
    LET must == MustClauses(params)
        filters == FilterClauses(params)
    IN [k \in {g \in {"must", "filter"} :
                  IF g = "must" THEN Len(must) > 0 \/ Len(filters) = 0
                  ELSE Len(filters) > 0} |->
           IF k = "filter" THEN filters
           ELSE IF Len(must) > 0 THEN must ELSE <<MatchAll>>]

\* strings.Split(s, ":"): the parts between the colons, empty ones too
RECURSIVE SplitFrom(_, _)
SplitFrom(s, part) ==
    IF s = <<>> THEN <<part>>
    ELSE IF Head(s) = ":" THEN <<part>> \o SplitFrom(Tail(s), <<>>)
    ELSE SplitFrom(Tail(s), Append(part, Head(s)))

Split(s) == SplitFrom(s, <<>>)

\* A sort descriptor that takes the direction as it is written, empty too.
SortDescriptorKeepsEmptyOrder(sort) ==
    LET sortField == IF sort = <<>> THEN <<"timestamp", ":", "desc">> ELSE sort
        parts == Split(sortField)
    IN <<[field |-> IF parts[1] = <<>> THEN <<"timestamp">> ELSE parts[1],
          order |-> IF Len(parts) > 1 THEN parts[2] ELSE <<"desc">>]>>

\* body["sort"]; a name is a sequence of lexemes
SortDescriptor(sort) ==
    LET sortField == IF sort = <<>> THEN <<"timestamp", ":", "desc">> ELSE sort
        parts == Split(sortField)
    IN <<[field |-> IF parts[1] = <<>> THEN <<"timestamp">> ELSE parts[1],
          order |-> IF Len(parts) > 1 /\ parts[2] # <<>> THEN parts[2] ELSE <<"desc">>]>>

\* The request body SearchNews sends
SearchNews(params) ==
    [from |-> ClampFrom(params.From),
     size |-> ClampSize(params.Size),
     track_total_hits |-> TRUE,
     query |-> [bool |-> BoolQuery(params)],
     sort |-> SortDescriptor(params.Sort)]

----------------------------------------------------------------------------
(* api: handleSearch                                                       *)

MaxFrom == 10000

\* A decimal query value is [kind, value]: "empty" is a parameter that is
\* missing or "", "text" one that is no decimal number, "int" a decimal
\* that fits an int, "over" and "under" decimals beyond the range of int
Atoi(raw) ==
    IF raw.kind = "int" THEN [err |-> FALSE, value |-> raw.value]
    ELSE [err |-> TRUE, value |-> 0]

clampInt(raw, fallback, max) ==
    IF raw.kind = "empty" THEN fallback
    ELSE LET r == Atoi(raw)
         IN IF r.err THEN fallback
            ELSE IF r.value <= 0 THEN fallback
            ELSE IF r.value > max THEN max
            ELSE r.value

\* parseTime: RFC3339 only
parseTime(raw) ==
    IF raw.fmt = "RFC3339" THEN TimeAt(raw.sec) ELSE NilTime

\* strings.Split(raw, ",") for a list of words, each with the spaces around it
RECURSIVE parseCSV(_)
parseCSV(parts) ==
    IF parts = <<>> THEN <<>>
    ELSE LET trimmed == TrimSpace(Head(parts))
         IN (IF trimmed # <<>> THEN <<trimmed>> ELSE <<>>) \o parseCSV(Tail(parts))

\* The SearchParams handleSearch builds, and the request SearchNews makes
\* of them
handleSearch(req, cfg) ==
    LET params == [Query |-> TrimSpace(req.q),
                   Keywords |-> parseCSV(req.keywords),
                   Source |-> TrimSpace(req.source),
                   From |-> clampInt(req.from, 0, MaxFrom),
                   Size |-> clampInt(req.size, cfg.DefaultPage, cfg.MaxPage),
                   Sort |-> TrimSpace(req.sort),
                   Start |-> parseTime(req.start),
                   End |-> parseTime(req.end)]
    IN [params |-> params, body |-> SearchNews(params)]

----------------------------------------------------------------------------
(* The functions of internal/processing, the search client and the API     *)
(* handler called on their own, on every input within the bounds           *)

\* The characters of a text: see the head of the module; "A" is the upper
\* case of "a"
Alphabet == {"a", "b", "A", " ", ".", "h", "e", "&", "t"}
Texts == UNION {[1..n -> Alphabet] : n \in 0..MaxLen}

\* A call of the function op on arg that returned out
FnCall(op, arg, out) == [op |-> op, arg |-> arg, out |-> out]

CallCleanText ==
    /\ fn = NoFn
    /\ \E x \in Texts : fn' = FnCall("CleanText", x, CleanText(x))
    /\ UNCHANGED <<cache, clockVars, cacheHist, procVars, sweep, ret, calls, workerVars>>

UrlAlphabet == {"a", "h", " "}
UrlTexts == UNION {[1..n -> UrlAlphabet] : n \in 0..MaxUrlLen}

CallExtractURLs ==
    /\ fn = NoFn
    /\ \E x \in UrlTexts : fn' = FnCall("ExtractURLs", x, ExtractURLs(x))
    /\ UNCHANGED <<cache, clockVars, cacheHist, procVars, sweep, ret, calls, workerVars>>

KwAlphabet == {"a", "b", "A", "h", " "}
KwTexts == UNION {[1..n -> KwAlphabet] : n \in 0..MaxKwLen}
LimitInputs == {0, 1, 2}
MinLenInputs == {1, 2, 3}

CallExtractKeywords ==
    /\ fn = NoFn
    /\ \E x \in KwTexts, limit \in LimitInputs, minLen \in MinLenInputs :
         fn' = FnCall("ExtractKeywords",
                      [text |-> x, limit |-> limit, minLen |-> minLen],
                      ExtractKeywords(x, limit, minLen))
    /\ UNCHANGED <<cache, clockVars, cacheHist, procVars, sweep, ret, calls, workerVars>>

\* The SearchParams SearchNews is called with
SortAlphabet == {"title", "asc", ":"}
SortInputs == UNION {[1..n -> SortAlphabet] : n \in 0..MaxSortLen}
SizeInputs == {-1, 0, 1, DefaultSize, MaxSize, MaxSize + 1}
FromInputs == {-1, 0, 1}
TimeInputs == {NilTime, TimeAt(1)}
ParamInputs ==
    [Query : {<<>>, <<"a">>}, Keywords : {<<>>, << <<"a">>, <<"b">> >>},
     Source : {<<>>, <<"b">>}, From : FromInputs, Size : SizeInputs,
     Sort : SortInputs, Start : TimeInputs, End : TimeInputs]

CallSearchNews ==
    /\ fn = NoFn
    /\ \E params \in ParamInputs : fn' = FnCall("SearchNews", params, SearchNews(params))
    /\ UNCHANGED <<cache, clockVars, cacheHist, procVars, sweep, ret, calls, workerVars>>

\* The query strings of a request, and the API's LoadAPI configuration:
\* 0 < DefaultPage <= MaxPage
Decimal(v) == [kind |-> "int", value |-> v]
RawInts(vs) ==
    {[kind |-> k, value |-> 0] : k \in {"empty", "text", "over", "under"}}
    \cup {Decimal(v) : v \in vs}
PageSizes == {1, 2, MaxSize + 1}
PageConfigs ==
    {c \in [DefaultPage : PageSizes, MaxPage : PageSizes] : c.DefaultPage <= c.MaxPage}
NoFilters == [q |-> <<>>, keywords |-> <<>>, source |-> <<>>, sort |-> <<>>,
              start |-> NoStamp, end |-> NoStamp]
AllFilters == [q |-> <<" ", "a">>, keywords |-> << <<"a">>, <<" ">>, <<" ", "b">> >>,
               source |-> <<"b", " ">>, sort |-> <<"title", ":", "asc">>,
               start |-> RFC(1), end |-> BadStamp]
Requests ==
    {[q |-> f.q, keywords |-> f.keywords, source |-> f.source, sort |-> f.sort,
      start |-> f.start, end |-> f.end, from |-> from, size |-> size] :
        f \in {NoFilters, AllFilters},
        from \in RawInts({-1, 0, 1, MaxFrom, MaxFrom + 1}),
        size \in RawInts({-1, 0, 1, 2, 3, MaxSize, MaxSize + 1, MaxSize + 2})}

CallHandleSearch ==
    /\ fn = NoFn
    /\ \E req \in Requests, cfg \in PageConfigs :
         fn' = FnCall("handleSearch", [req |-> req, cfg |-> cfg], handleSearch(req, cfg))
    /\ UNCHANGED <<cache, clockVars, cacheHist, procVars, sweep, ret, calls, workerVars>>

MaxWordsInputs == {-1, 0, 1, 2}

CallGenerateTitleFromText ==
    /\ fn = NoFn
    /\ \E text \in Texts, maxWords \in MaxWordsInputs :
         fn' = FnCall("GenerateTitleFromText", [text |-> text, maxWords |-> maxWords],
                      GenerateTitleFromText(text, maxWords))
    /\ UNCHANGED <<cache, clockVars, cacheHist, procVars, sweep, ret, calls, workerVars>>

\* One call is made, on the state after construction
FuncNext ==
    \/ CallGenerateTitleFromText
    \/ CallExtractKeywords
    \/ CallCleanText
    \/ CallExtractURLs
    \/ CallSearchNews
    \/ CallHandleSearch

FuncSpec == ProcInit /\ [][FuncNext]_vars

----------------------------------------------------------------------------
(* Properties of the functions, checked under FuncSpec                     *)

\* C28: CleanText is idempotent: cleaning a cleaned text gives it back.
C28_CleanTextIdempotent ==
    fn.op = "CleanText" => CleanText(fn.out) = fn.out

C28_Witness ==
    /\ fn.op = "CleanText"
    /\ fn.arg = <<"h", " ", "e">>
    /\ fn.out = <<"t">>

\* A match of the URL pattern starts at position p of x: "http://" with a
\* non-space character after it, and no "http://" before it in the same run
\* of non-space characters
UrlStart(x, p) ==
    /\ x[p] = "h"
    /\ p < Len(x)
    /\ x[p + 1] # Space
    /\ \A q \in 1..(p - 1) :
         x[q] = "h" => \E r \in q..p : x[r] = Space

\* The match that starts at p: up to the next space or the end of x
UrlAt(x, p) ==
    LET ends == {q \in p..Len(x) : q = Len(x) \/ x[q + 1] = Space}
    IN SubSeq(x, p, CHOOSE q \in ends : \A r \in ends : q <= r)

\* Where the URL u occurs first in x
FirstStart(x, u) ==
    LET starts == {p \in 1..Len(x) : UrlStart(x, p) /\ UrlAt(x, p) = u}
    IN CHOOSE p \in starts : \A q \in starts : p <= q

\* C29: ExtractURLs returns every URL the pattern matches, each once, in the
\* order in which they first occur, and nothing for a text without a URL.
C29_UrlsOnceInOrder ==
    fn.op = "ExtractURLs" =>
        LET x == fn.arg
            urls == fn.out
            matched == {UrlAt(x, p) : p \in {q \in 1..Len(x) : UrlStart(x, q)}}
        IN /\ {urls[i] : i \in 1..Len(urls)} = matched
           /\ Len(urls) = Cardinality(matched)
           /\ \A i, j \in 1..Len(urls) :
                i < j => FirstStart(x, urls[i]) < FirstStart(x, urls[j])
           /\ matched = {} => urls = <<>>

C29_Witness ==
    /\ fn.op = "ExtractURLs"
    /\ fn.arg = <<"h", "h", " ", "h", "a", " ", "h", "h">>
    /\ fn.out = << <<"h", "h">>, <<"h", "a">> >>

\* The tokens of a text: the words of its cleaned, lowercased form
Tokens(x) == Fields(ToLower(CleanText(x)))

\* How often the word w is among the tokens
Count(tokens, w) == Cardinality({i \in 1..Len(tokens) : tokens[i] = w})

\* The words ExtractKeywords may return for the tokens
Eligible(tokens, minLen) ==
    {w \in {tokens[i] : i \in 1..Len(tokens)} :
        RuneLen(w) >= minLen /\ w \notin stopwords}

\* x with every URL in it covered by spaces
WithoutURLs(x) ==
    [p \in 1..Len(x) |->
        IF \E q \in 1..p : UrlStart(x, q) /\ p < q + Len(UrlAt(x, q))
        THEN Space ELSE x[p]]

\* C27: ExtractKeywords returns lowercased tokens, none shorter than minLen
\* code points and none a stop-word, at most limit of them when limit > 0 and
\* all of them otherwise, ordered by descending count and then ascending
\* word; what is part of a URL is never among them.
C27_KeywordsFilteredAndOrdered ==
    fn.op = "ExtractKeywords" =>
        LET x == fn.arg.text
            limit == fn.arg.limit
            minLen == fn.arg.minLen
            kw == fn.out
            tokens == Tokens(x)
            eligible == Eligible(tokens, minLen)
        IN /\ \A i \in 1..Len(kw) :
                /\ kw[i] = ToLower(kw[i])
                /\ kw[i] \in eligible
           /\ limit > 0 => Len(kw) <= limit
           /\ limit <= 0 =>
                /\ {kw[i] : i \in 1..Len(kw)} = eligible
                /\ Len(kw) = Cardinality(eligible)
           /\ \A i, j \in 1..Len(kw) :
                i < j => \/ Count(tokens, kw[i]) > Count(tokens, kw[j])
                         \/ /\ Count(tokens, kw[i]) = Count(tokens, kw[j])
                            /\ WordLess(kw[i], kw[j])
           /\ kw = ExtractKeywords(WithoutURLs(x), limit, minLen)

C27_Witness ==
    /\ fn.op = "ExtractKeywords"
    /\ fn.arg = [text |-> <<"h", "A", " ", "a", "b">>, limit |-> 0, minLen |-> 1]
    /\ fn.out = << <<"a", "b">> >>

\* Count beats word order, and the limit cuts the list
C27_WitnessOrder ==
    /\ fn.op = "ExtractKeywords"
    /\ fn.arg = [text |-> <<"h", " ", "h", " ", "b">>, limit |-> 1, minLen |-> 3]
    /\ fn.out = << <<"t">> >>

\* The latest call indexed its document
LastIndexed == last.indexCalled /\ last.err = "none"

\* The raw timestamp is written in one of the layouts parseTimestamp tries
Parseable(raw) == raw.fmt \in TimestampLayouts

\* The instant a parseable raw timestamp names
Named(raw) == [t |-> raw.sec, n |-> 0]

\* C30 as stated: the indexed document's timestamp is the instant parsed
\* from the raw timestamp when that is in one of the three layouts, the
\* instant of processing when it is empty or unparseable, and never the
\* zero time.
C30_TimestampParsedOrNow ==
    LastIndexed =>
        LET raw == last.payload.timestamp
            ts == last.doc.timestamp
        IN /\ Parseable(raw) => ts = Named(raw)
           /\ ~Parseable(raw) => ts = LastIndexedAt
           /\ ~IsZero(ts)

\* C30 amended: the indexed document's timestamp is the instant parsed from
\* the raw timestamp when that is in one of the three layouts and names an
\* instant other than the zero time; it is the instant of processing when
\* the raw timestamp is empty, unparseable or names the zero time; it is
\* never the zero time.
C30_TimestampParsedUnlessZero ==
    LastIndexed =>
        LET raw == last.payload.timestamp
            ts == last.doc.timestamp
            kept == Parseable(raw) /\ ~IsZero(Named(raw))
        IN /\ kept => ts = Named(raw)
           /\ ~kept => ts = LastIndexedAt
           /\ ~IsZero(ts)

C30_Witness ==
    /\ LastIndexed
    /\ last.payload = Ancient
    /\ last.doc.timestamp = LastIndexedAt
    /\ last.doc.timestamp.t = 2

C30_WitnessLegacy ==
    /\ LastIndexed
    /\ last.payload = Untitled
    /\ now = 2
    /\ last.doc.timestamp.t = 1

\* A request was compiled: by SearchNews called directly, or by handleSearch
Searched == fn.op \in {"SearchNews", "handleSearch"}
SearchParams == IF fn.op = "SearchNews" THEN fn.arg ELSE fn.out.params
SearchBody == IF fn.op = "SearchNews" THEN fn.out ELSE fn.out.body

\* The clauses of a group of the bool query, none when the group is absent
Group(name) ==
    LET bool == SearchBody.query.bool
    IN IF name \in DOMAIN bool THEN bool[name] ELSE <<>>

\* The clauses of a kind in a group
Of(name, kind) == {i \in 1..Len(Group(name)) : Group(name)[i].kind = kind}

\* The group has one clause of the kind when wanted and none otherwise,
\* and the clause is on the field with the value
OneIff(name, kind, wanted, field, value) ==
    /\ Cardinality(Of(name, kind)) = IF wanted THEN 1 ELSE 0
    /\ \A i \in Of(name, kind) :
         Group(name)[i].field = field /\ Group(name)[i].value = value

\* C23: the compiled bool query has one multi_match over title^2 and text
\* in "must" iff Query is non-empty; in "filter" a terms clause on keywords
\* iff Keywords is non-empty, a term clause on source iff Source is
\* non-empty and one range clause on timestamp iff Start or End is set,
\* with gte only for Start and lte only for End; a single match_all iff
\* both groups are empty; and track_total_hits is true.
C23_BoolQueryCompiled ==
    Searched =>
        LET p == SearchParams
            noClause == /\ p.Query = <<>> /\ Len(p.Keywords) = 0 /\ p.Source = <<>>
                        /\ ~p.Start.set /\ ~p.End.set
        IN /\ OneIff("must", "multi_match", p.Query # <<>>,
                     <<"title^2", "text">>, p.Query)
           /\ OneIff("filter", "terms", Len(p.Keywords) > 0, "keywords", p.Keywords)
           /\ OneIff("filter", "term", p.Source # <<>>, "source", p.Source)
           /\ Cardinality(Of("filter", "range")) =
                  IF p.Start.set \/ p.End.set THEN 1 ELSE 0
           /\ \A i \in Of("filter", "range") :
                /\ Group("filter")[i].field = "timestamp"
                /\ "gte" \in DOMAIN Group("filter")[i].value <=> p.Start.set
                /\ "lte" \in DOMAIN Group("filter")[i].value <=> p.End.set
                /\ DOMAIN Group("filter")[i].value \subseteq {"gte", "lte"}
           /\ Cardinality(Of("must", "match_all")) = IF noClause THEN 1 ELSE 0
           /\ Of("filter", "match_all") = {}
           /\ Len(Group("must")) =
                  Cardinality(Of("must", "multi_match") \cup Of("must", "match_all"))
           /\ Len(Group("filter")) =
                  Cardinality(Of("filter", "terms") \cup Of("filter", "term")
                              \cup Of("filter", "range"))
           /\ DOMAIN SearchBody.query.bool \subseteq {"must", "filter"}
           /\ SearchBody.track_total_hits = TRUE

C23_Witness ==
    /\ fn.op = "SearchNews"
    /\ fn.arg.Query = <<>>
    /\ fn.arg.Source = <<"b">>
    /\ fn.arg.Start.set /\ ~fn.arg.End.set
    /\ DOMAIN fn.out.query.bool = {"filter"}
    /\ Len(fn.out.query.bool["filter"]) = 2
    /\ DOMAIN fn.out.query.bool["filter"][2].value = {"gte"}

\* C24: the request has a size in [1, 200], a size <= 0 becoming 20 and one
\* above 200 becoming 200, also when the API's MaxPage is above 200, and a
\* from >= 0, a negative From becoming 0.
C24_SizeAndFromClamped ==
    Searched =>
        LET p == SearchParams
            body == SearchBody
        IN /\ body.size \in 1..MaxSize
           /\ p.Size <= 0 => body.size = DefaultSize
           /\ p.Size > MaxSize => body.size = MaxSize
           /\ p.Size \in 1..MaxSize => body.size = p.Size
           /\ body.from >= 0
           /\ p.From < 0 => body.from = 0
           /\ p.From >= 0 => body.from = p.From

C24_Witness ==
    /\ fn.op = "handleSearch"
    /\ fn.arg.cfg.MaxPage = MaxSize + 1
    /\ fn.arg.req.size = Decimal(MaxSize + 2)
    /\ fn.out.params.Size = MaxSize + 1
    /\ fn.out.body.size = MaxSize

\* Where the first colon of s is at or after position p, or past its end
RECURSIVE ColonFrom(_, _)
ColonFrom(s, p) ==
    IF p > Len(s) \/ s[p] = ":" THEN p ELSE ColonFrom(s, p + 1)

\* The field part of a Sort string, and its direction part if it has one
FieldPart(sort) == SubSeq(sort, 1, ColonFrom(sort, 1) - 1)
HasDirection(sort) == ColonFrom(sort, 1) <= Len(sort)
DirectionPart(sort) ==
    SubSeq(sort, ColonFrom(sort, 1) + 1, ColonFrom(sort, ColonFrom(sort, 1) + 1) - 1)

\* C25: the request carries exactly one sort descriptor {field: {order}}:
\* an empty Sort gives timestamp/desc, an empty field part the field
\* timestamp, a missing or empty direction part the order desc.
C25_OneSortDescriptor ==
    Searched =>
        LET sort == SearchParams.Sort
            desc == SearchBody.sort
        IN /\ Len(desc) = 1
           /\ sort = <<>> => desc[1] = [field |-> <<"timestamp">>, order |-> <<"desc">>]
           /\ desc[1].field =
                 IF FieldPart(sort) = <<>> THEN <<"timestamp">> ELSE FieldPart(sort)
           /\ desc[1].order =
                 IF ~HasDirection(sort) \/ DirectionPart(sort) = <<>>
                 THEN <<"desc">> ELSE DirectionPart(sort)

C25_Witness ==
    /\ fn.op = "SearchNews"
    /\ fn.arg.Sort = <<":", "asc", ":">>
    /\ fn.out.sort = <<[field |-> <<"timestamp">>, order |-> <<"asc">>]>>

\* The decimal value a query string names is zero or negative, is above
\* max, is within 1..max
NonPositive(raw) == raw.kind = "under" \/ (raw.kind = "int" /\ raw.value <= 0)
Above(raw, max) == raw.kind = "over" \/ (raw.kind = "int" /\ raw.value > max)
Within(raw, max) == raw.kind = "int" /\ raw.value \in 1..max

\* What the claim says a clamped query value is
Clamped(raw, fallback, max) ==
    IF raw.kind \in {"empty", "text"} \/ NonPositive(raw) THEN fallback
    ELSE IF Above(raw, max) THEN max
    ELSE raw.value

\* C26: the search handler passes From in [0, 10000] (default 0) and Size
\* in [1, MaxPage] (default DefaultPage): a missing, non-numeric, zero or
\* negative value gives the default and a value above the maximum gives
\* the maximum.
C26_FromAndSizeClamped ==
    fn.op = "handleSearch" =>
        LET req == fn.arg.req
            cfg == fn.arg.cfg
            p == fn.out.params
        IN /\ p.From \in 0..MaxFrom
           /\ p.Size \in 1..cfg.MaxPage
           /\ p.From = Clamped(req.from, 0, MaxFrom)
           /\ p.Size = Clamped(req.size, cfg.DefaultPage, cfg.MaxPage)

\* C31: when IndexNews returns an error, processMessage returns that error
\* and marks nothing: the cache and the index are as before and the id is
\* not seen, so the same message processed next, building the same id, is
\* sent to IndexNews again, not dropped as a duplicate.
C31_IndexErrorMarksNothing ==
    /\ [][CallStep /\ last'.err = "index" =>
            /\ last'.indexCalled
            /\ ~last'.dup
            /\ cache' = cache
            /\ index' = index
            /\ ~IsSeen(cache', last'.doc.id, ReadNow)]_vars
    /\ [][(/\ CallStep
            /\ last.err = "index"
            /\ last'.payload = last.payload
            /\ last'.doc.id = last.doc.id) =>
            last'.indexCalled /\ ~last'.dup]_vars

\* IndexNews was called for News and failed; nothing is marked or stored
C31_Witness ==
    /\ last.payload = News
    /\ last.err = "index"
    /\ last.indexCalled
    /\ DOMAIN cache.items = {}
    /\ index = {}

\* This step is a MarkSeen call
MarkStep == lastCall' # lastCall /\ lastCall'.op = "MarkSeen"

\* The history entries a MarkSeen step took off the front of the history
\* with the new entry appended
Popped ==
    LET pre == Append(cache.order, [key |-> lastCall'.key, ts |-> lastCall'.at])
    IN {pre[i] : i \in 1..(Len(pre) - Len(cache'.order))}

\* The timestamp the map holds for k once the key of the step is stored
Current(k) == IF k = lastCall'.key THEN lastCall'.at ELSE cache.items[k]

\* The history holds the keys in this order
HistoryKeys(keys) ==
    /\ Len(cache.order) = Len(keys)
    /\ \A i \in 1..Len(keys) : cache.order[i].key = keys[i]

\* C32: compaction never evicts a key through a stale history entry: a key
\* leaves the map only when the history entry taken off carries the
\* timestamp the map holds for it; so after MarkSeen(a), MarkSeen(b),
\* MarkSeen(a), MarkSeen(c) with capacity 2, a and c are seen and b is not.
C32_StaleEntryEvictsNothing ==
    /\ [][MarkStep =>
            \A k \in (DOMAIN cache.items \cup {lastCall'.key}) \ DOMAIN cache'.items :
                [key |-> k, ts |-> Current(k)] \in Popped]_vars
    /\ [][(/\ MarkStep
            /\ lastCall'.key = "c"
            /\ cache.capacity = 2
            /\ HistoryKeys(<<"a", "b", "a">>)
            /\ DOMAIN cache.items = {"a", "b"}
            /\ AllFresh(lastCall'.at)) =>
            /\ DOMAIN cache'.items = {"a", "c"}
            /\ IsSeen(cache', "a", lastCall'.at)
            /\ IsSeen(cache', "c", lastCall'.at)
            /\ ~IsSeen(cache', "b", lastCall'.at)]_vars

C32_Witness ==
    /\ lastCall.op = "MarkSeen"
    /\ lastCall.key = "c"
    /\ cache.capacity = 2
    /\ seq = 4
    /\ marked["a"].n = 3
    /\ marked["b"].n = 2
    /\ marked["c"].n = 4
    /\ DOMAIN cache.items = {"a", "c"}
    /\ cache.items["a"] = marked["a"]
    /\ cache.order = <<[key |-> "a", ts |-> marked["a"]], [key |-> "c", ts |-> marked["c"]]>>

\* C35: in sequential use every key of the map has a history entry with
\* its key and its timestamp, so after every MarkSeen the compaction loop
\* has brought the map down to capacity with the history not run empty.
C35_MapKeysHaveHistory ==
    /\ \A k \in DOMAIN cache.items :
         \E i \in 1..Len(cache.order) :
            cache.order[i] = [key |-> k, ts |-> cache.items[k]]
    /\ lastCall.op = "MarkSeen" =>
         /\ Cardinality(DOMAIN cache.items) <= cache.capacity
         /\ Len(cache.order) >= Cardinality(DOMAIN cache.items)
         /\ Len(cache.order) > 0

C35_Witness ==
    /\ lastCall.op = "MarkSeen"
    /\ cache.capacity = 2
    /\ HistoryKeys(<<"a", "b", "a">>)
    /\ DOMAIN cache.items = {"a", "b"}
    /\ cache.items["a"] = cache.order[3].ts

\* The prefix of s before its first sentence terminator, s when it has none
BeforeTerminator(s) ==
    LET ends == {i \in 1..Len(s) : s[i] \in SentenceEnd}
    IN IF ends = {} THEN s
       ELSE SubSeq(s, 1, (CHOOSE i \in ends : \A j \in ends : i <= j) - 1)

\* The words of the title of text: those before the first terminator of the
\* text without its URLs
TitleWords(text) == Fields(BeforeTerminator(WithoutURLs(text)))

Titled == fn.op = "GenerateTitleFromText"

\* C33: GenerateTitleFromText(text, maxWords) returns the words of the
\* prefix of the URL-stripped text before its first '.', '!' or '?' (of all
\* of it when none occurs) joined by single spaces; the first maxWords
\* words followed by "..." when maxWords > 0 and there are more words; and
\* the empty string when no words remain.
C33_TitleIsFirstSentenceWords ==
    Titled =>
        LET words == TitleWords(fn.arg.text)
            maxWords == fn.arg.maxWords
        IN fn.out = IF words = <<>> THEN <<>>
                    ELSE IF maxWords > 0 /\ Len(words) > maxWords
                         THEN Join(SubSeq(words, 1, maxWords)) \o <<".", ".", ".">>
                         ELSE Join(words)

\* The words of a text: its runs of letters, the URLs taken out
Words(text) ==
    LET w == WithoutURLs(text)
    IN Fields([p \in 1..Len(w) |-> IF w[p] \in Letters THEN w[p] ELSE Space])

\* p and q carry the same title and name the same second, and their texts
\* differ only in URLs, punctuation, entities and whitespace
Twins(p, q) ==
    /\ Decodes(p) /\ Decodes(q)
    /\ TrimSpace(p.title) = TrimSpace(q.title)
    /\ TrimSpace(p.title) # <<>>
    /\ ~IsZero(parseTimestamp(p.timestamp))
    /\ FormatRFC3339(parseTimestamp(p.timestamp)) = FormatRFC3339(parseTimestamp(q.timestamp))
    /\ p.text # q.text
    /\ Words(p.text) = Words(q.text)

InFlight == sweep.pc = "round"

\* This step calls DeleteOlderThan
CallsDeleteOlderThan == ret'.pc = "sweep" /\ (ret.pc # "sweep" \/ TickTaken)

\* C37: retention sweeps never overlap: DeleteOlderThan is called only when
\* no call is in flight, and is in flight only inside runOnce; a tick that
\* fires while a sweep is running stays in the channel and changes nothing
\* of the sweep; and once the 2 minutes of its context are over a sweep
\* deletes nothing more: its next step returns an error.
C37_SweepsNeverOverlap ==
    /\ [][CallsDeleteOlderThan => ~InFlight /\ ret.pc \in {"run", "wait"}]_vars
    /\ [][InFlight' => ret'.pc = "sweep"]_vars
    /\ [][ret.pc = "sweep" /\ ret'.tick # ret.tick =>
            /\ ret'.tick
            /\ ret'.pc = "sweep"
            /\ sweep' = sweep
            /\ index' = index]_vars
    /\ [][InFlight /\ DeadlineExceeded /\ sweep' # sweep =>
            /\ sweep'.pc = "returned"
            /\ sweep'.err
            /\ sweep'.startedAt = sweep.startedAt
            /\ index' = index]_vars

\* A sweep deleted one batch, ran out of its 2 minutes with a tick waiting,
\* and returned the error; no shutdown was signalled
C37_Witness ==
    /\ ret.pc = "sweep"
    /\ ret.tick
    /\ ~ret.cancelled
    /\ sweep.pc = "returned"
    /\ sweep.err
    /\ sweep.rounds = <<1>>
    /\ DeadlineExceeded

----------------------------------------------------------------------------
(* The cache called from several goroutines.  Each method reads time.Now()  *)
(* first and takes c.mu after it; what it does holding c.mu is one step.    *)

ConcKeys == {"a", "b"}

\* MarkSeen up to c.mu.Lock(): now := time.Now()
BeginMarkSeen(g, key) ==
    /\ calls[g] = NoCacheCall
    /\ seq < MaxConcReads
    /\ calls' = [calls EXCEPT ![g] = CacheCall("MarkSeen", key, ReadNow, FALSE)]
    /\ seq' = seq + 1
    /\ UNCHANGED <<cache, now, cacheHist, procVars, sweep, ret, fn, workerVars>>

\* IsSeen up to c.mu.Lock(): now := time.Now()
BeginIsSeen(g, key) ==
    /\ calls[g] = NoCacheCall
    /\ calls' = [calls EXCEPT ![g] = CacheCall("IsSeen", key, ReadNow, FALSE)]
    /\ UNCHANGED <<cache, clockVars, cacheHist, procVars, sweep, ret, fn, workerVars>>

\* MarkSeen from c.mu.Lock() to its return, with the now it read before
LockedMarkSeen(g) ==
    /\ calls[g].op = "MarkSeen"
    /\ cache' = MarkSeen(cache, calls[g].key, calls[g].at)
    /\ marked' = [marked EXCEPT ![calls[g].key] = calls[g].at]
    /\ lastMarked' = calls[g].key
    /\ lastCall' = calls[g]
    /\ calls' = [calls EXCEPT ![g] = NoCacheCall]
    /\ UNCHANGED <<clockVars, procVars, sweep, ret, fn, workerVars>>

\* IsSeen from c.mu.Lock() to its return, with the now it read before
LockedIsSeen(g) ==
    /\ calls[g].op = "IsSeen"
    /\ cache' = IsSeenCall(cache, calls[g].key, calls[g].at).cache
    /\ lastCall' = [calls[g] EXCEPT
                       !.seen = IsSeenCall(cache, calls[g].key, calls[g].at).seen]
    /\ calls' = [calls EXCEPT ![g] = NoCacheCall]
    /\ UNCHANGED <<clockVars, marked, lastMarked, procVars, sweep, ret, fn, workerVars>>

ConcNext ==
    \/ \E g \in Goroutines, key \in ConcKeys : BeginMarkSeen(g, key)
    \/ \E g \in Goroutines, key \in ConcKeys : BeginIsSeen(g, key)
    \/ \E g \in Goroutines : LockedMarkSeen(g)
    \/ \E g \in Goroutines : LockedIsSeen(g)
    \/ Tick

ConcSpec == CacheInit /\ [][ConcNext]_vars

\* The history is in non-decreasing timestamp order
HistorySorted ==
    \A i \in 1..(Len(cache.order) - 1) :
        ~Before(cache.order[i + 1].ts, cache.order[i].ts)

\* C34: whatever the interleaving of concurrent MarkSeen and IsSeen calls,
\* after each MarkSeen the map holds at most capacity keys, the history is
\* in non-decreasing timestamp order, and no expired entry is left.
C34_ConcurrentCallsKeepInvariants ==
    /\ HistorySorted
    /\ lastCall.op = "MarkSeen" =>
         /\ Cardinality(DOMAIN cache.items) <= cache.capacity
         /\ AllFresh(lastCall.at)

====
